---------------------------- MODULE Spec2Model ----------------------------
(***************************************************************************)
(* The reply pipelines of viral-kid: the Reddit run endpoint               *)
(* (src/unnamed/part_005, second file) and the YouTube run endpoint        *)
(* (src/unnamed/part_007, second file, with the client library of          *)
(* src/unnamed/part_015).  A request is one invocation of a run endpoint;  *)
(* every await of a handler that reaches the network or the database is    *)
(* one action, together with the createLog calls and the response that     *)
(* follow it in the code.  Text is represented by its length, time by      *)
(* minutes since the start of the behaviour.  The OAuth callbacks, the     *)
(* cron endpoint of the YouTube pipeline with the toggle route, and the    *)
(* signup endpoint are modelled the same way, each in a specification of   *)
(* its own.                                                                *)
(***************************************************************************)
EXTENDS Integers, Sequences, FiniteSets, TLC

VARIABLES
    now,                       \* Date.now(), in minutes
    issued,                    \* tokens handed out so far by the OAuth token endpoints
    credentials,               \* redditCredentials / youTubeCredentials, per account
    configuration,             \* redditConfiguration / youTubeConfiguration, per account
    openRouterCredentials,     \* per account
    redditInteraction,         \* rows of the redditInteraction table
    youTubeCommentInteraction, \* rows of the youTubeCommentInteraction table
    log,                       \* rows of the log table
    posted,                    \* replies that exist on the platforms
    started,                   \* requests received so far
    faults,                    \* failures of the network, the database and the log so far
    run,                       \* per handler: the request's position and locals
    fin,                       \* inputs and results of the pure filter/select functions
    cron,                      \* the cron endpoint: its environment, request and loop
    signup                     \* the signup endpoint: users, accounts, invite, requests

vars == <<now, issued, credentials, configuration, openRouterCredentials,
          redditInteraction, youTubeCommentInteraction, log, posted, started, faults, run, fin, cron, signup>>

pipelineVars == <<now, issued, credentials, configuration, openRouterCredentials,
                  redditInteraction, youTubeCommentInteraction, log, posted, started, faults, run>>

-----------------------------------------------------------------------------
(* Bounds of the model *)

MaxRequests == 2
MaxFetch == 2
MaxLLMChars == 501
MaxTicks == 2
MaxFaults == 1
MaxList == 3
MaxIssued == 3
MaxCronMinutes == 1
MaxSignups == 3

(* Program constants *)

FiveMinutes == 5
SevenDays == 10080
FourteenDays == 20160
KeepInteractions == 100
DefaultMinimumUpvotes == 10
DefaultMinimumLikesCount == 5
MaxReplyChars == 500
MaxVideos == 5
MAX_ATTEMPTS == 5
MinPasswordLength == 8

(* Absent values: null dates and numbers, null tokens *)

NoDate == -1
NoNumber == -1
NoToken == 0
NULL == "null"

(* The world the requests run in *)

RedditAccounts == {"r1"}
YouTubeAccounts == {"y1"}
Accounts == RedditAccounts \cup YouTubeAccounts
Users == {"u1", "u2"}
Owner(a) == "u1"
CRON_SECRET == "s3cret"
OwnIdentity(a) == IF a \in YouTubeAccounts THEN "UCme" ELSE "me"
\* two requests can be in flight at a time; a handler that has responded takes
\* the next request
Handlers == {1, 2}

\* content that exists on the platforms: posts for Reddit, comments for YouTube
ContentIds == {"c1", "c2", "c3"}
ContentAuthor(a, id) == IF id = "c3" THEN OwnIdentity(a) ELSE "other"
ContentVideo(id) == IF id = "c1" THEN "v1" ELSE "v2"
Step == SevenDays + 1
\* c2 appears late enough for an interaction of the start to have been pruned
ContentPublishedAt(id) == IF id = "c2" THEN 2 * Step ELSE 0
Scores == {4, 12, 15}
ChannelVideos == <<"v1", "v2">>
ExpiresIn == 60

Min(a, b) == IF a <= b THEN a ELSE b

Range(s) == {s[i] : i \in DOMAIN s}

Candidate(a, id, score) ==
    [id |-> id, author |-> ContentAuthor(a, id), score |-> score,
     videoId |-> ContentVideo(id), publishedAt |-> ContentPublishedAt(id)]

NoCandidate ==
    [id |-> NULL, author |-> NULL, score |-> 0, videoId |-> NULL, publishedAt |-> 0]

\* lists of at most n candidates with distinct ids drawn from ids and scores
\* drawn from scores
CandidateLists(a, ids, scores, n) ==
    {s \in UNION {[1..k -> {Candidate(a, id, sc) : id \in ids, sc \in scores}] : k \in 0..n} :
        \A i, j \in DOMAIN s : i # j => s[i].id # s[j].id}


-----------------------------------------------------------------------------
(* Pure functions of the pipelines *)

\* minimumUpvotes || 10
RedditMinimum(minimumUpvotes) ==
    IF minimumUpvotes = NoNumber \/ minimumUpvotes = 0
    THEN DefaultMinimumUpvotes
    ELSE minimumUpvotes

\* youtubeConfig?.minimumLikesCount ?? 5
YouTubeMinimum(minimumLikesCount) ==
    IF minimumLikesCount = NoNumber THEN DefaultMinimumLikesCount ELSE minimumLikesCount

\* posts.filter(...): not already replied, minimum upvotes, not own posts, not deleted
eligiblePosts(posts, repliedPostIds, minimumUpvotes, username) ==
    SelectSeq(posts, LAMBDA post :
        /\ post.id \notin repliedPostIds
        /\ post.score >= RedditMinimum(minimumUpvotes)
        /\ post.author # username
        /\ post.author # "[deleted]")

\* comments.filter((c) => c.likeCount >= minimumLikesCount)
filteredComments(comments, minimumLikesCount) ==
    SelectSeq(comments, LAMBDA c : c.score >= YouTubeMinimum(minimumLikesCount))

\* a filter that keeps the comments that have a reply (a faulty variant, to
\* test C14 against)
keepReplied(allComments, repliedCommentIds) == allComments

\* allComments.filter((c) => !repliedCommentIds.has(c.commentId))
unrepliedComments(allComments, repliedCommentIds) ==
    SelectSeq(allComments, LAMBDA c : c.id \notin repliedCommentIds)

\* the loop of fetchVideoComments: drop comments published more than 7 days ago
recentComments(items, t) ==
    SelectSeq(items, LAMBDA c : ~(c.publishedAt < t - SevenDays))

\* an insertion that puts x before the elements it ties with (a faulty variant,
\* to test C7 against)
insertBeforeTies(x, s) ==
    LET k == Cardinality({i \in DOMAIN s : s[i].score > x.score})
    IN  SubSeq(s, 1, k) \o <<x>> \o SubSeq(s, k + 1, Len(s))

\* one insertion of the stable sort: x goes after every element that does not
\* compare greater than it under (a, b) => b.score - a.score
InsertSorted(x, s) ==
    LET k == Cardinality({i \in DOMAIN s : s[i].score >= x.score})
    IN  SubSeq(s, 1, k) \o <<x>> \o SubSeq(s, k + 1, Len(s))

\* Array.prototype.sort((a, b) => b.score - a.score): stable, descending
RECURSIVE sortDescending(_)
sortDescending(s) ==
    IF s = <<>> THEN <<>>
    ELSE InsertSorted(s[Len(s)], sortDescending(SubSeq(s, 1, Len(s) - 1)))

\* sortedPosts[0] / unrepliedComments[0]
selectTarget(eligible) ==
    IF eligible = <<>> THEN NoCandidate ELSE sortDescending(eligible)[1]

\* data.choices?.[0]?.message?.content?.trim(): content is [spaces, chars]
trim(content) == content.chars

\* no truncation (a faulty variant, to test C8 against)
noSlice(chars) == chars

\* reply.slice(0, 500)
slice500(chars) == Min(chars, MaxReplyChars)

\* what the chat-completion endpoint can answer: an error status, a body with
\* no content, or a content of some blanks around some characters
LLMContents ==
    {[spaces |-> 2, chars |-> 0], [spaces |-> 1, chars |-> 3],
     [spaces |-> 0, chars |-> MaxLLMChars]}
\* the bodies of the error responses of the endpoint
UpstreamErrors == {"rate limited", "model not found"}
LLMResponses ==
    {[ok |-> FALSE, text |-> t, content |-> [spaces |-> 0, chars |-> 0]] : t \in UpstreamErrors}
    \cup {[ok |-> TRUE, text |-> NULL, content |-> c] :
              c \in LLMContents \cup {[spaces |-> 0, chars |-> 0]}}

\* the message of the error generateReplyWithLLM throws: the body of the error
\* response stands for `OpenRouter error: ${error}`
llmError(response) ==
    IF ~response.ok THEN response.text ELSE "Empty response from LLM"

\* generateReplyWithLLM: 0 stands for a throw, otherwise the reply's length
generateReplyWithLLM(response) ==
    IF ~response.ok THEN 0
    ELSE IF trim(response.content) = 0 THEN 0
    ELSE slice500(trim(response.content))

\* a token check that always asks for a new token (a faulty variant, to test
\* C12 against)
neverFresh(c, t) == FALSE

\* tokenExpiresAt && tokenExpiresAt > new Date(Date.now() + 5 * 60 * 1000)
tokenIsFresh(c, t) == c.tokenExpiresAt # NoDate /\ c.tokenExpiresAt > t + FiveMinutes

-----------------------------------------------------------------------------
(* Requests *)

NoCalls ==
    [refresh |-> 0, fetch |-> 0, comments |-> 0, llm |-> 0, publish |-> 0,
     upsert |-> 0, prune |-> 0]

NoCredentials ==
    [accessToken |-> NoToken, refreshToken |-> NoToken, tokenExpiresAt |-> NoDate,
     identity |-> NULL]

\* the locals of a handler; meeting, skipped and passed only observe the
\* filter: the fetched ids that meet the threshold, the fetched ids it dropped
\* for having an interaction record, and the ids of the eligible list; error
\* is the message of the error a catch block caught; authorized observes the
\* request: it carried the cron secret or the session of the account's owner
IdleRun ==
    [pc |-> "idle", req |-> 0, platform |-> NULL, accountId |-> NULL,
     creds |-> NoCredentials, minimum |-> NoNumber,
     accessToken |-> NoToken, tokenResult |-> NoCredentials,
     videos |-> <<>>, allComments |-> <<>>,
     target |-> NoCandidate, meeting |-> {}, skipped |-> {}, passed |-> {},
     generatedReply |-> 0, replyId |-> 0, error |-> NULL,
     status |-> 0, replied |-> FALSE, body |-> NULL,
     calls |-> NoCalls, failed |-> {}, authorized |-> FALSE]

\* return NextResponse.json(body, {status}): the locals of the handler are gone
\* (the caught error stays, to be compared with the log)
Respond(me, status, replied, body) ==
    [IdleRun EXCEPT !.pc = "done", !.req = me.req, !.platform = me.platform,
                    !.accountId = me.accountId, !.calls = me.calls, !.failed = me.failed,
                    !.error = me.error,
                    !.status = status, !.replied = replied, !.body = body]

\* a call of the run threw
Failing(me, what) == [me EXCEPT !.failed = @ \cup {what}]

\* one more external call of a kind
Calling(me, kind) == [me EXCEPT !.calls[kind] = @ + 1]

\* the failures among the outcomes oks of the calls of a step are within what
\* the behaviour may still suffer
Inject(oks) ==
    LET n == Cardinality({i \in DOMAIN oks : ~oks[i]})
    IN  /\ faults + n <= MaxFaults
        /\ faults' = faults + n

\* a log row whose message leaves the caught error out (a faulty variant, to
\* test C15 against)
plainLogRow(me, level, message) ==
    [accountId |-> me.accountId, req |-> me.req, level |-> level, message |-> message,
     detail |-> NULL]

\* db.log.create({data: {accountId, level, message}}); req tells the rows of
\* one request from those of another, as their timestamps do; detail is the
\* ${error.message} of the message of a catch block
LogRow(me, level, message) ==
    [accountId |-> me.accountId, req |-> me.req, level |-> level, message |-> message,
     detail |-> me.error]

\* the catch of the whole handler
RedditOuterCatch(me) == Respond(me, 500, FALSE, "Pipeline failed")
YouTubeOuterCatch(me) == Respond(me, 500, FALSE, "Pipeline failed unexpectedly")

OuterCatch(me) ==
    IF me.platform = "reddit" THEN RedditOuterCatch(me) ELSE YouTubeOuterCatch(me)

\* await createLog(...) outside the inner try blocks, then carry on as next;
\* a throw of createLog reaches the handler's catch
createLog(h, me, logOk, level, message, next) ==
    IF logOk
    THEN /\ log' = log \cup {LogRow(me, level, message)}
         /\ run' = [run EXCEPT ![h] = next]
    ELSE /\ log' = log
         /\ run' = [run EXCEPT ![h] = OuterCatch(Failing(me, "log"))]

\* a catch block that logs and runs its stage again (a faulty variant, to test
\* C9 against)
retryLog(h, me, logOk, message, status, body) ==
    createLog(h, me, logOk, "error", message, [me EXCEPT !.failed = {}])

\* a catch block that logs and lets generation and publication fall through to
\* the stage after them (a faulty variant, to test C10 against)
swallowLog(h, me, logOk, message, status, body) ==
    createLog(h, me, logOk, "error", message,
              IF me.pc = "generate" THEN [me EXCEPT !.pc = "publish"]
              ELSE IF me.pc = "publish" THEN [me EXCEPT !.pc = "store"]
              ELSE Respond(me, status, FALSE, body))

\* a catch block that logs and, for a failed publication, goes on to store the
\* interaction (a faulty variant, to test C26 against)
storeUnpublished(h, me, logOk, message, status, body) ==
    createLog(h, me, logOk, "error", message,
              IF me.pc = "publish" /\ "publish" \in me.failed
              THEN [me EXCEPT !.pc = "store"]
              ELSE Respond(me, status, FALSE, body))

\* await createLog(accountId, "error", ...) in a catch block, then the block's
\* response; a throw of this createLog reaches the handler's catch
catchLog(h, me, logOk, message, status, body) ==
    createLog(h, me, logOk, "error", message, Respond(me, status, FALSE, body))

InFlight(h) == run[h].pc \notin {"idle", "done"}

\* a request arrives and handler h takes it; the second handler takes a request
\* only while the first is busy
Arrives(h) ==
    /\ started < MaxRequests
    /\ ~InFlight(h)
    /\ h = 2 => InFlight(1)
    /\ started' = started + 1

\* the locals of a handler that has just taken a request
NewRun(platform, accountId) ==
    [IdleRun EXCEPT !.req = started + 1, !.platform = platform, !.accountId = accountId]

\* the request carries the shared secret in x-cron-secret, or the session of
\* the user who owns the account
Authorized(accountId, cronSecret, session) ==
    \/ cronSecret # NULL /\ cronSecret = CRON_SECRET /\ CRON_SECRET # ""
    \/ session # NULL /\ session = Owner(accountId)

-----------------------------------------------------------------------------
(* The Reddit run endpoint *)

\* the first validation that fails, or NULL
RedditInvalid(accountId) ==
    IF credentials[accountId].accessToken = NoToken THEN "Reddit OAuth not connected"
    ELSE IF configuration[accountId].keywords \in {"", " "} THEN "No keywords configured"
    ELSE IF ~openRouterCredentials[accountId].apiKey THEN "OpenRouter API key not configured"
    ELSE IF ~openRouterCredentials[accountId].selectedModel THEN "No LLM model selected"
    ELSE NULL

\* POST up to "Starting Reddit pipeline": body, cron secret or session, account
\* lookup, validation
RedditStart(h) ==
    /\ Arrives(h)
    /\ \E accountId \in {a \in DOMAIN credentials : a \notin YouTubeAccounts} \cup {NULL},
          cronSecret \in {NULL, CRON_SECRET, "wrong"},
          session \in Users \cup {NULL} :
        LET isCronCall == cronSecret # NULL /\ cronSecret = CRON_SECRET /\ CRON_SECRET # ""
            me == NewRun("reddit", accountId)
            rejected ==
                IF accountId = NULL THEN Respond(me, 400, FALSE, "accountId is required")
                ELSE IF ~isCronCall /\ session = NULL
                THEN Respond(me, 401, FALSE, "Unauthorized")
                ELSE IF ~isCronCall /\ Owner(accountId) # session
                THEN Respond(me, 404, FALSE, "Account not found")
                ELSE me
        IN  IF rejected.pc = "done"
            THEN /\ run' = [run EXCEPT ![h] = rejected]
                 /\ UNCHANGED <<log, faults>>
            ELSE \E logOk \in BOOLEAN :
                    /\ Inject(<<logOk>>)
                    /\ IF RedditInvalid(accountId) # NULL
                       THEN catchLog(h, me, logOk, RedditInvalid(accountId),
                                     400, RedditInvalid(accountId))
                       ELSE createLog(h, me, logOk, "info", "Starting Reddit pipeline",
                                      [me EXCEPT !.pc = "refresh",
                                                 !.creds = credentials[accountId],
                                                 !.minimum = configuration[accountId].minimum,
                                                 !.authorized =
                                                     Authorized(accountId, cronSecret, session)])
    /\ UNCHANGED <<now, issued, credentials, configuration, openRouterCredentials,
                   redditInteraction, youTubeCommentInteraction, posted, fin, cron, signup>>

\* refreshTokenIfNeeded of the Reddit route, and the try/catch around its call
RedditRefresh(h) ==
    /\ run[h].pc = "refresh"
    /\ run[h].platform = "reddit"
    /\ LET me == run[h]
           c == me.creds
           called == Calling(me, "refresh")
       IN  IF tokenIsFresh(c, now)
           THEN /\ run' = [run EXCEPT ![h] = [me EXCEPT !.pc = "search",
                                                        !.accessToken = c.accessToken]]
                /\ UNCHANGED <<log, issued, credentials, faults>>
           ELSE IF c.refreshToken = NoToken
           THEN /\ \E logOk \in BOOLEAN :
                       /\ Inject(<<logOk>>)
                       /\ catchLog(h, Failing(me, "refresh"), logOk,
                                   "Token refresh failed", 401, "Failed to refresh token")
                /\ UNCHANGED <<issued, credentials>>
           ELSE \E responseOk \in BOOLEAN :
                  IF ~responseOk
                  THEN /\ \E logOk \in BOOLEAN :
                              /\ Inject(<<responseOk, logOk>>)
                              /\ catchLog(h, Failing(called, "refresh"), logOk,
                                          "Token refresh failed", 401, "Failed to refresh token")
                       /\ UNCHANGED <<issued, credentials>>
                  ELSE \E dbOk \in BOOLEAN :
                         IF ~dbOk
                         THEN /\ \E logOk \in BOOLEAN :
                                     /\ Inject(<<dbOk, logOk>>)
                                     /\ catchLog(h, Failing(called, "db"), logOk,
                                                 "Token refresh failed",
                                                 401, "Failed to refresh token")
                              /\ issued' = issued + 1
                              /\ UNCHANGED credentials
                         ELSE /\ issued' = issued + 1
                              /\ credentials' =
                                     [credentials EXCEPT
                                         ![me.accountId].accessToken = issued + 1,
                                         ![me.accountId].tokenExpiresAt = now + ExpiresIn]
                              /\ run' = [run EXCEPT ![h] = [called EXCEPT
                                                               !.pc = "search",
                                                               !.accessToken = issued + 1]]
                              /\ UNCHANGED <<log, faults>>
    /\ UNCHANGED <<started, now, configuration, openRouterCredentials, redditInteraction,
                   youTubeCommentInteraction, posted, fin, cron, signup>>

\* searchPosts and the try/catch around its call
RedditSearch(h) ==
    /\ run[h].pc = "search"
    /\ run[h].platform = "reddit"
    /\ \E responseOk \in BOOLEAN, logOk \in BOOLEAN, logOk2 \in BOOLEAN :
        LET me == run[h]
            noQuery == configuration[me.accountId].keywords = ","
            called == IF noQuery THEN me ELSE Calling(me, "fetch")
        IN  /\ Inject(<<responseOk, logOk, logOk2>>)
            /\ noQuery => responseOk
            /\ ~responseOk => logOk
            /\ responseOk /\ logOk => logOk2
            /\ IF ~responseOk
               THEN catchLog(h, Failing(called, "fetch"), logOk2,
                             "Failed to search posts", 500, "Failed to search posts")
               ELSE IF ~logOk
               THEN catchLog(h, Failing(called, "log"), logOk2,
                             "Failed to search posts", 500, "Failed to search posts")
               ELSE createLog(h, called, TRUE, "info", "Found posts",
                              [called EXCEPT !.pc = "filter"])
    /\ UNCHANGED <<started, now, issued, credentials, configuration, openRouterCredentials,
                   redditInteraction, youTubeCommentInteraction, posted, fin, cron, signup>>

\* a lookup that finds no interaction (a faulty variant, to test C1 against)
noRepliedPostIds(accountId) == {}

\* db.redditInteraction.findMany({where: {accountId}, select: {postId}})
repliedPostIds(accountId) ==
    {i.postId : i \in {x \in redditInteraction : x.accountId = accountId}}

\* the span, in minutes, of the t parameter of the search: hour, day, week, month
Lookback(timeRange) ==
    IF timeRange = "hour" THEN 60
    ELSE IF timeRange = "day" THEN 24 * 60
    ELSE IF timeRange = "week" THEN SevenDays
    ELSE 30 * 24 * 60

\* redditConfig.timeRange || "day"
RedditTimeRange(accountId) ==
    IF configuration[accountId].timeRange = NULL THEN "day"
    ELSE configuration[accountId].timeRange

\* the posts a search can return at time t
SearchResults(accountId, t) ==
    CandidateLists(accountId,
                   {id \in ContentIds :
                       /\ ContentPublishedAt(id) <= t
                       /\ ContentPublishedAt(id) >= t - Lookback(RedditTimeRange(accountId))},
                   Scores, MaxFetch)

\* already-replied lookup, eligibility filter, selection of the top post; posts
\* is the body of the search response, which no step before this one reads
RedditFilter(h) ==
    /\ run[h].pc = "filter"
    /\ run[h].platform = "reddit"
    /\ \E dbOk \in BOOLEAN :
        LET me == run[h]
        IN  IF ~dbOk
            THEN /\ Inject(<<dbOk>>)
                 /\ run' = [run EXCEPT ![h] = RedditOuterCatch(Failing(me, "db"))]
                 /\ log' = log
            ELSE \E found \in SearchResults(me.accountId, now), logOk \in BOOLEAN :
                    LET posts == IF configuration[me.accountId].keywords = ","
                                 THEN <<>> ELSE found
                        eligible == eligiblePosts(posts, repliedPostIds(me.accountId),
                                                  me.minimum, me.creds.identity)
                        targetPost == selectTarget(eligible)
                        skipped == {p.id : p \in Range(posts)}
                                       \cap repliedPostIds(me.accountId)
                        meeting == {p.id : p \in {q \in Range(posts) :
                                                    q.score >= RedditMinimum(me.minimum)}}
                        seen == [me EXCEPT !.meeting = meeting, !.skipped = skipped]
                    IN  /\ Inject(<<logOk>>)
                        /\ IF Len(eligible) = 0
                           THEN createLog(h, me, logOk, "info", "No eligible posts found",
                                          [Respond(me, 200, FALSE, "No eligible posts found")
                                              EXCEPT !.meeting = meeting,
                                                     !.skipped = skipped])
                           ELSE createLog(h, me, logOk, "info", "Selected post",
                                          [seen EXCEPT !.pc = "generate", !.target = targetPost,
                                                       !.passed = {p.id : p \in Range(eligible)}])
    /\ UNCHANGED <<started, now, issued, credentials, configuration, openRouterCredentials,
                   redditInteraction, youTubeCommentInteraction, posted, fin, cron, signup>>

\* generateReplyWithLLM and the try/catch around its call
RedditGenerate(h) ==
    /\ run[h].pc = "generate"
    /\ run[h].platform = "reddit"
    /\ \E response \in LLMResponses, logOk \in BOOLEAN, logOk2 \in BOOLEAN :
        LET me == Calling(run[h], "llm")
            reply == generateReplyWithLLM(response)
        IN  /\ Inject(<<reply # 0, logOk, logOk2>>)
            /\ reply = 0 => logOk
            /\ reply # 0 /\ logOk => logOk2
            /\ IF reply = 0
               THEN catchLog(h, [Failing(me, "llm") EXCEPT !.error = llmError(response)],
                             logOk2, "LLM generation failed", 500, "Failed to generate reply")
               ELSE IF ~logOk
               THEN catchLog(h, [Failing(me, "log") EXCEPT !.error = "log write failed"],
                             logOk2, "LLM generation failed", 500, "Failed to generate reply")
               ELSE createLog(h, me, TRUE, "info", "Generated reply",
                              [me EXCEPT !.pc = "publish", !.generatedReply = reply])
    /\ UNCHANGED <<started, now, issued, credentials, configuration, openRouterCredentials,
                   redditInteraction, youTubeCommentInteraction, posted, fin, cron, signup>>

\* a reply as the platform holds it
PostedReply(me) ==
    [replyId |-> me.req, accountId |-> me.accountId, parentId |-> me.target.id,
     text |-> me.generatedReply]

\* postComment and the try/catch around its call
RedditPublish(h) ==
    /\ run[h].pc = "publish"
    /\ run[h].platform = "reddit"
    /\ \E responseOk \in BOOLEAN, logOk \in BOOLEAN, logOk2 \in BOOLEAN :
        LET me == Calling(run[h], "publish")
        IN  /\ Inject(<<responseOk, logOk, logOk2>>)
            /\ ~responseOk => logOk
            /\ responseOk /\ logOk => logOk2
            /\ IF ~responseOk
               THEN /\ catchLog(h, Failing(me, "publish"), logOk2,
                                "Failed to post comment", 500, "Failed to post comment")
                    /\ posted' = posted
               ELSE /\ posted' = posted \cup {PostedReply(me)}
                    /\ IF ~logOk
                       THEN catchLog(h, Failing(me, "log"), logOk2,
                                     "Failed to post comment", 500, "Failed to post comment")
                       ELSE createLog(h, me, TRUE, "success", "Posted comment",
                                      [me EXCEPT !.pc = "store", !.replyId = me.req])
    /\ UNCHANGED <<started, now, issued, credentials, configuration, openRouterCredentials,
                   redditInteraction, youTubeCommentInteraction, fin, cron, signup>>

\* a create in place of the upsert (a faulty variant, to test C2 against)
insertRedditInteraction(table, me, t) ==
    table \cup
    {[rowId |-> me.req, accountId |-> me.accountId, postId |-> me.target.id,
      postAuthor |-> me.target.author, upvotes |-> me.target.score,
      ourComment |-> me.generatedReply, ourCommentId |-> me.replyId,
      createdAt |-> t, repliedAt |-> t]}

\* db.redditInteraction.upsert({where: {accountId_postId}, create, update})
upsertRedditInteraction(table, me, t) ==
    LET existing == {x \in table : x.accountId = me.accountId /\ x.postId = me.target.id}
    IN  IF existing = {}
        THEN table \cup
             {[rowId |-> me.req, accountId |-> me.accountId, postId |-> me.target.id,
               postAuthor |-> me.target.author, upvotes |-> me.target.score,
               ourComment |-> me.generatedReply, ourCommentId |-> me.replyId,
               createdAt |-> t, repliedAt |-> t]}
        ELSE {IF x \in existing
              THEN [x EXCEPT !.ourComment = me.generatedReply,
                             !.ourCommentId = me.replyId,
                             !.repliedAt = t]
              ELSE x : x \in table}

\* a query without the account in its where (a faulty variant, to test C25
\* against)
anyOldInteractions(table, accountId) ==
    LET n == Cardinality(table) - KeepInteractions
    IN  IF n <= 0 THEN {{}}
        ELSE LET before(t) == {x \in table : x.createdAt < t}
                 at(t) == {x \in table : x.createdAt = t}
                 cut == CHOOSE t \in {x.createdAt : x \in table} :
                            /\ Cardinality(before(t)) < n
                            /\ n <= Cardinality(before(t)) + Cardinality(at(t))
             IN  {before(cut) \cup tied :
                     tied \in {T \in SUBSET at(cut) :
                                  Cardinality(T) = n - Cardinality(before(cut))}}

\* the query with orderBy createdAt "asc": it returns the newest rows (a faulty
\* variant, to test C27 against)
newestInteractions(table, accountId) ==
    LET mine == {x \in table : x.accountId = accountId}
        n == Cardinality(mine) - KeepInteractions
    IN  IF n <= 0 THEN {{}}
        ELSE LET after(t) == {x \in mine : x.createdAt > t}
                 at(t) == {x \in mine : x.createdAt = t}
                 cut == CHOOSE t \in {x.createdAt : x \in mine} :
                            /\ Cardinality(after(t)) < n
                            /\ n <= Cardinality(after(t)) + Cardinality(at(t))
             IN  {after(cut) \cup tied :
                     tied \in {T \in SUBSET at(cut) :
                                  Cardinality(T) = n - Cardinality(after(cut))}}

\* a query that returns no row (a faulty variant, to test C17 against)
noOldInteractions(table, accountId) == {{}}

\* findMany({where: {accountId}, orderBy: {createdAt: "desc"}, skip: 100}):
\* the sets of rows the query can return (rows created at the same time come
\* in either order)
oldInteractions(table, accountId) ==
    LET mine == {x \in table : x.accountId = accountId}
        n == Cardinality(mine) - KeepInteractions
    IN  IF n <= 0 THEN {{}}
        ELSE LET before(t) == {x \in mine : x.createdAt < t}
                 at(t) == {x \in mine : x.createdAt = t}
                 \* the creation time of the last row the query returns
                 cut == CHOOSE t \in {x.createdAt : x \in mine} :
                            /\ Cardinality(before(t)) < n
                            /\ n <= Cardinality(before(t)) + Cardinality(at(t))
             IN  {before(cut) \cup tied :
                     tied \in {T \in SUBSET at(cut) :
                                  Cardinality(T) = n - Cardinality(before(cut))}}

\* the catch of "Store interaction": a warning, and the run goes on to respond
RedditStoreCatch(h, me, logOk) ==
    createLog(h, Failing(me, "store"), logOk, "warning",
              "Comment posted but failed to record in database",
              Respond(Failing(me, "store"), 200, TRUE, "replied"))

\* "Store interaction": the upsert, and the catch that logs a warning
RedditStore(h) ==
    /\ run[h].pc = "store"
    /\ run[h].platform = "reddit"
    /\ \E dbOk \in BOOLEAN, logOk \in BOOLEAN :
        LET me == Calling(run[h], "upsert")
        IN  /\ Inject(<<dbOk, logOk>>)
            /\ dbOk => logOk
            /\ IF dbOk
               THEN /\ redditInteraction' = upsertRedditInteraction(redditInteraction, me, now)
                    /\ run' = [run EXCEPT ![h] = [me EXCEPT !.pc = "cleanup"]]
                    /\ log' = log
               ELSE /\ redditInteraction' = redditInteraction
                    /\ RedditStoreCatch(h, me, logOk)
    /\ UNCHANGED <<started, now, issued, credentials, configuration, openRouterCredentials,
                   youTubeCommentInteraction, posted, fin, cron, signup>>

\* "Cleanup old interactions (keep last 100)", the catch, and the response
RedditCleanup(h) ==
    /\ run[h].pc = "cleanup"
    /\ run[h].platform = "reddit"
    /\ \E dbOk \in BOOLEAN, logOk \in BOOLEAN,
          old \in oldInteractions(redditInteraction, run[h].accountId) :
        LET me == Calling(run[h], "prune")
        IN  /\ Inject(<<dbOk, logOk>>)
            /\ dbOk => logOk
            /\ IF dbOk
               THEN /\ redditInteraction' = redditInteraction \ old
                    /\ run' = [run EXCEPT ![h] = Respond(me, 200, TRUE, "replied")]
                    /\ log' = log
               ELSE /\ redditInteraction' = redditInteraction
                    /\ RedditStoreCatch(h, me, logOk)
    /\ UNCHANGED <<started, now, issued, credentials, configuration, openRouterCredentials,
                   youTubeCommentInteraction, posted, fin, cron, signup>>

-----------------------------------------------------------------------------
(* The YouTube run endpoint *)

YouTubeInvalid(accountId) ==
    IF credentials[accountId].accessToken = NoToken THEN "YouTube OAuth not connected"
    ELSE IF credentials[accountId].identity = NULL THEN "YouTube channel not linked"
    ELSE IF ~openRouterCredentials[accountId].apiKey THEN "OpenRouter API key not configured"
    ELSE IF ~openRouterCredentials[accountId].selectedModel THEN "No LLM model selected"
    ELSE NULL

\* POST up to "YouTube pipeline started": body, account lookup, validation;
\* the handler reads neither the x-cron-secret header nor the session of the
\* request
YouTubeStart(h) ==
    /\ Arrives(h)
    /\ \E accountId \in YouTubeAccounts \cup {NULL},
          cronSecret \in {NULL, CRON_SECRET, "wrong"},
          session \in Users \cup {NULL} :
        LET me == NewRun("youtube", accountId)
        IN  IF accountId = NULL
            THEN /\ run' = [run EXCEPT ![h] = Respond(me, 400, FALSE, "accountId is required")]
                 /\ UNCHANGED <<log, faults>>
            ELSE \E logOk \in BOOLEAN :
                    /\ Inject(<<logOk>>)
                    /\ IF YouTubeInvalid(accountId) # NULL
                       THEN catchLog(h, me, logOk, YouTubeInvalid(accountId),
                                     400, YouTubeInvalid(accountId))
                       ELSE createLog(h, me, logOk, "info", "YouTube pipeline started",
                                      [me EXCEPT !.pc = "refresh",
                                                 !.creds = credentials[accountId],
                                                 !.minimum = configuration[accountId].minimum,
                                                 !.authorized =
                                                     Authorized(accountId, cronSecret, session)])
    /\ UNCHANGED <<now, issued, credentials, configuration, openRouterCredentials,
                   redditInteraction, youTubeCommentInteraction, posted, fin, cron, signup>>

\* a refresh that stores what the response carries (a faulty variant, to test
\* C22 against)
responseRefreshToken(c, refresh_token) == refresh_token

\* data.refresh_token || credentials.refreshToken
refreshedRefreshToken(c, refresh_token) ==
    IF refresh_token # NoToken THEN refresh_token ELSE c.refreshToken

\* refreshTokenIfNeeded of lib/youtube/client and the null check of the route
YouTubeRefresh(h) ==
    /\ run[h].pc = "refresh"
    /\ run[h].platform = "youtube"
    /\ LET me == run[h]
           c == me.creds
           called == Calling(me, "refresh")
       IN  IF c.accessToken = NoToken \/ c.refreshToken = NoToken
           THEN /\ \E logOk \in BOOLEAN :
                       /\ Inject(<<logOk>>)
                       /\ catchLog(h, Failing(me, "refresh"), logOk,
                                   "Failed to get valid access token",
                                   401, "YouTube authentication failed")
                /\ issued' = issued
           ELSE IF tokenIsFresh(c, now)
           THEN /\ run' = [run EXCEPT ![h] = [me EXCEPT !.pc = "videos",
                                                        !.tokenResult = c,
                                                        !.accessToken = c.accessToken]]
                /\ UNCHANGED <<log, issued, faults>>
           ELSE \E responseOk \in BOOLEAN :
                  IF ~responseOk
                  THEN /\ \E logOk \in BOOLEAN :
                              /\ Inject(<<responseOk, logOk>>)
                              /\ catchLog(h, Failing(called, "refresh"), logOk,
                                          "Failed to get valid access token",
                                          401, "YouTube authentication failed")
                       /\ issued' = issued
                  ELSE \E refresh_token \in {NoToken, issued + 1} :
                         /\ issued' = issued + 1
                         /\ UNCHANGED <<log, faults>>
                         /\ run' = [run EXCEPT ![h] =
                                [called EXCEPT
                                    !.pc = "persist",
                                    !.accessToken = issued + 1,
                                    !.tokenResult =
                                        [c EXCEPT
                                            !.accessToken = issued + 1,
                                            !.refreshToken =
                                                refreshedRefreshToken(c, refresh_token),
                                            !.tokenExpiresAt = now + ExpiresIn]]]
    /\ UNCHANGED <<started, now, credentials, configuration, openRouterCredentials,
                   redditInteraction, youTubeCommentInteraction, posted, fin, cron, signup>>

\* a failed update after which the run goes on with the new token (a faulty
\* variant, to test C23 against)
tokenWriteIgnored(me) == [Failing(me, "db") EXCEPT !.pc = "videos"]

\* await db.youTubeCredentials.update(...) rejects: the handler's catch
tokenWriteFailed(me) == YouTubeOuterCatch(Failing(me, "db"))

\* "Update tokens in database if refreshed"
YouTubePersist(h) ==
    /\ run[h].pc = "persist"
    /\ run[h].platform = "youtube"
    /\ \E dbOk \in BOOLEAN :
        LET me == run[h]
        IN  /\ Inject(<<dbOk>>)
            /\ IF dbOk
               THEN /\ credentials' =
                           [credentials EXCEPT
                               ![me.accountId].accessToken = me.tokenResult.accessToken,
                               ![me.accountId].refreshToken = me.tokenResult.refreshToken,
                               ![me.accountId].tokenExpiresAt = me.tokenResult.tokenExpiresAt]
                    /\ run' = [run EXCEPT ![h] = [me EXCEPT !.pc = "videos"]]
               ELSE /\ credentials' = credentials
                    /\ run' = [run EXCEPT ![h] = tokenWriteFailed(me)]
    /\ UNCHANGED <<started, now, issued, configuration, openRouterCredentials,
                   redditInteraction, youTubeCommentInteraction, log, posted, fin, cron, signup>>

\* fetchChannelVideos(accessToken, 5) and what follows it up to the loop
YouTubeVideos(h) ==
    /\ run[h].pc = "videos"
    /\ run[h].platform = "youtube"
    /\ \E responseOk \in BOOLEAN, logOk \in BOOLEAN,
          n \in 0..Min(Len(ChannelVideos), MaxVideos) :
        LET me == Calling(run[h], "fetch")
            videos == SubSeq(ChannelVideos, 1, n)
        IN  /\ Inject(<<responseOk, logOk>>)
            /\ ~responseOk => n = 0
            /\ IF ~responseOk
               THEN catchLog(h, Failing(me, "fetch"), logOk,
                             "Failed to fetch channel", 500, "Failed to fetch channel")
               ELSE IF Len(videos) = 0
               THEN createLog(h, me, logOk, "warning", "No videos found on channel",
                              Respond(me, 200, FALSE, "No videos found on channel"))
               ELSE createLog(h, me, logOk, "info", "Found videos",
                              [me EXCEPT !.pc = "comments", !.videos = videos])
    /\ UNCHANGED <<started, now, issued, credentials, configuration, openRouterCredentials,
                   redditInteraction, youTubeCommentInteraction, posted, fin, cron, signup>>

\* the comment threads the API can return for a video at time t
CommentThreads(accountId, videoId, t) ==
    CandidateLists(accountId,
                   {id \in ContentIds : ContentVideo(id) = videoId /\ ContentPublishedAt(id) <= t},
                   Scores, MaxFetch)

\* a loop that a failed fetch ends (a faulty variant, to test C24 against)
stopAtFailure(me, response, comments) ==
    IF response = "ok"
    THEN [me EXCEPT !.videos = Tail(me.videos),
                    !.allComments = me.allComments \o filteredComments(comments, me.minimum)]
    ELSE [me EXCEPT !.videos = <<>>]

\* the body of the loop: the try pushes the filtered comments, the catch only
\* writes to the console, and the loop goes on to the next video
nextVideo(me, response, comments) ==
    [me EXCEPT !.videos = Tail(me.videos),
               !.allComments = me.allComments \o filteredComments(comments, me.minimum)]

\* one iteration of "for (const video of videos)": fetchVideoComments, the
\* likes filter, the push; after the last video, the check of allComments
YouTubeComments(h) ==
    /\ run[h].pc = "comments"
    /\ run[h].platform = "youtube"
    /\ \E response \in {"ok", "forbidden", "error"}, logOk \in BOOLEAN,
          items \in CommentThreads(run[h].accountId, Head(run[h].videos), now) :
        LET me == Calling(run[h], "comments")
            comments == IF response = "ok" THEN recentComments(items, now) ELSE <<>>
            looping == nextVideo(me, response, comments)
            allComments == looping.allComments
            last == Len(looping.videos) = 0
        IN  /\ Inject(<<response = "ok", logOk>>)
            /\ response # "ok" => items = <<>>
            /\ ~last => logOk
            /\ IF ~last
               THEN /\ run' = [run EXCEPT ![h] = looping]
                    /\ log' = log
               ELSE IF Len(allComments) = 0
               THEN createLog(h, looping, logOk, "warning", "No comments found",
                              Respond(looping, 200, FALSE,
                                      "No comments found matching criteria"))
               ELSE createLog(h, looping, logOk, "info", "Found comments",
                              [looping EXCEPT !.pc = "filter"])
    /\ UNCHANGED <<started, now, issued, credentials, configuration, openRouterCredentials,
                   redditInteraction, youTubeCommentInteraction, posted, fin, cron, signup>>

\* findMany({where: {accountId, commentId: {in: ...}}}) and
\* existingInteractions.filter((i) => i.ourReply).map((i) => i.commentId)
repliedCommentIds(accountId, allComments) ==
    {i.commentId : i \in {x \in youTubeCommentInteraction :
                             /\ x.accountId = accountId
                             /\ x.commentId \in {c.id : c \in Range(allComments)}
                             /\ x.ourReply # 0}}

\* already-replied lookup, filter, selection of the best comment
YouTubeFilter(h) ==
    /\ run[h].pc = "filter"
    /\ run[h].platform = "youtube"
    /\ \E dbOk \in BOOLEAN, logOk \in BOOLEAN :
        LET me == run[h]
            unreplied == unrepliedComments(me.allComments,
                                           repliedCommentIds(me.accountId, me.allComments))
            bestComment == selectTarget(unreplied)
            skipped == {c.id : c \in Range(me.allComments)}
                           \cap repliedCommentIds(me.accountId, me.allComments)
            seen == [me EXCEPT !.meeting = {c.id : c \in Range(me.allComments)},
                               !.skipped = skipped]
        IN  /\ Inject(<<dbOk, logOk>>)
            /\ ~dbOk => logOk
            /\ IF ~dbOk
               THEN /\ run' = [run EXCEPT ![h] = YouTubeOuterCatch(Failing(me, "db"))]
                    /\ log' = log
               ELSE IF Len(unreplied) = 0
               THEN createLog(h, me, logOk, "warning",
                              "All found comments have been replied to",
                              [Respond(me, 200, FALSE,
                                       "All found comments have been replied to already")
                                  EXCEPT !.meeting = seen.meeting, !.skipped = skipped])
               ELSE createLog(h, me, logOk, "info", "Selected comment",
                              [seen EXCEPT !.pc = "generate", !.target = bestComment,
                                           !.passed = {c.id : c \in Range(unreplied)},
                                           !.allComments = <<>>])
    /\ UNCHANGED <<started, now, issued, credentials, configuration, openRouterCredentials,
                   redditInteraction, youTubeCommentInteraction, posted, fin, cron, signup>>

\* generateReplyWithLLM, its catch, and the "Generated reply" log after it
YouTubeGenerate(h) ==
    /\ run[h].pc = "generate"
    /\ run[h].platform = "youtube"
    /\ \E response \in LLMResponses, logOk \in BOOLEAN :
        LET me == Calling(run[h], "llm")
            reply == generateReplyWithLLM(response)
        IN  /\ Inject(<<reply # 0, logOk>>)
            /\ IF reply = 0
               THEN catchLog(h, [Failing(me, "llm") EXCEPT !.error = llmError(response)],
                             logOk, "LLM error", 500, "LLM error")
               ELSE createLog(h, me, logOk, "info", "Generated reply",
                              [me EXCEPT !.pc = "publish", !.generatedReply = reply])
    /\ UNCHANGED <<started, now, issued, credentials, configuration, openRouterCredentials,
                   redditInteraction, youTubeCommentInteraction, posted, fin, cron, signup>>

\* postCommentReply, its catch, and the "Posted reply" log after it
YouTubePublish(h) ==
    /\ run[h].pc = "publish"
    /\ run[h].platform = "youtube"
    /\ \E responseOk \in BOOLEAN, logOk \in BOOLEAN :
        LET me == Calling(run[h], "publish")
        IN  /\ Inject(<<responseOk, logOk>>)
            /\ IF ~responseOk
               THEN /\ catchLog(h, Failing(me, "publish"), logOk,
                                "YouTube API error", 500, "Failed to post reply")
                    /\ posted' = posted
               ELSE /\ posted' = posted \cup {PostedReply(me)}
                    /\ createLog(h, me, logOk, "success", "Posted reply",
                                 [me EXCEPT !.pc = "store", !.replyId = me.req])
    /\ UNCHANGED <<started, now, issued, credentials, configuration, openRouterCredentials,
                   redditInteraction, youTubeCommentInteraction, fin, cron, signup>>

\* an upsert whose update writes the reply alone, as the Reddit one does (a
\* faulty variant, to test C3 against)
patchYouTubeCommentInteraction(table, me, t) ==
    LET existing == {x \in table : x.accountId = me.accountId /\ x.commentId = me.target.id}
    IN  IF existing = {}
        THEN table \cup
             {[rowId |-> me.req, accountId |-> me.accountId, commentId |-> me.target.id,
               videoId |-> me.target.videoId, authorChannelId |-> me.target.author,
               likeCount |-> me.target.score,
               ourReply |-> me.generatedReply, ourReplyId |-> me.replyId,
               createdAt |-> t, repliedAt |-> t]}
        ELSE {IF x \in existing
              THEN [x EXCEPT !.ourReply = me.generatedReply,
                             !.ourReplyId = me.replyId,
                             !.repliedAt = t]
              ELSE x : x \in table}

\* db.youTubeCommentInteraction.upsert({where: {accountId_commentId}, update, create})
upsertYouTubeCommentInteraction(table, me, t) ==
    LET existing == {x \in table : x.accountId = me.accountId /\ x.commentId = me.target.id}
    IN  IF existing = {}
        THEN table \cup
             {[rowId |-> me.req, accountId |-> me.accountId, commentId |-> me.target.id,
               videoId |-> me.target.videoId, authorChannelId |-> me.target.author,
               likeCount |-> me.target.score,
               ourReply |-> me.generatedReply, ourReplyId |-> me.replyId,
               createdAt |-> t, repliedAt |-> t]}
        ELSE {IF x \in existing
              THEN [x EXCEPT !.videoId = me.target.videoId,
                             !.authorChannelId = me.target.author,
                             !.likeCount = me.target.score,
                             !.ourReply = me.generatedReply,
                             !.ourReplyId = me.replyId,
                             !.repliedAt = t]
              ELSE x : x \in table}

\* "Step 9: Store the interaction"
YouTubeStore(h) ==
    /\ run[h].pc = "store"
    /\ run[h].platform = "youtube"
    /\ \E dbOk \in BOOLEAN :
        LET me == Calling(run[h], "upsert")
        IN  /\ Inject(<<dbOk>>)
            /\ IF dbOk
               THEN /\ youTubeCommentInteraction' =
                           upsertYouTubeCommentInteraction(youTubeCommentInteraction, me, now)
                    /\ run' = [run EXCEPT ![h] = [me EXCEPT !.pc = "cleanup"]]
               ELSE /\ youTubeCommentInteraction' = youTubeCommentInteraction
                    /\ run' = [run EXCEPT ![h] = YouTubeOuterCatch(Failing(me, "store"))]
    /\ UNCHANGED <<started, now, issued, credentials, configuration, openRouterCredentials,
                   redditInteraction, log, posted, fin, cron, signup>>

\* deleteMany({where: {accountId, createdAt: {lt: fourteenDaysAgo}}})
expiredInteractions(table, accountId, t) ==
    {x \in table : x.accountId = accountId /\ x.createdAt < t - FourteenDays}

\* "Clean up old interactions (older than 14 days)" and the response
YouTubeCleanup(h) ==
    /\ run[h].pc = "cleanup"
    /\ run[h].platform = "youtube"
    /\ \E dbOk \in BOOLEAN :
        LET me == Calling(run[h], "prune")
        IN  /\ Inject(<<dbOk>>)
            /\ IF dbOk
               THEN /\ youTubeCommentInteraction' =
                           youTubeCommentInteraction \
                               expiredInteractions(youTubeCommentInteraction, me.accountId, now)
                    /\ run' = [run EXCEPT ![h] = Respond(me, 200, TRUE, "replied")]
               ELSE /\ youTubeCommentInteraction' = youTubeCommentInteraction
                    /\ run' = [run EXCEPT ![h] = YouTubeOuterCatch(Failing(me, "store"))]
    /\ UNCHANGED <<started, now, issued, credentials, configuration, openRouterCredentials,
                   redditInteraction, log, posted, fin, cron, signup>>

-----------------------------------------------------------------------------
(* Time, and the specification of the pipelines *)

\* time passes; a request lasts seconds and a step of time is days, so time
\* steps between requests
Tick ==
    /\ \A h \in Handlers : ~InFlight(h)
    /\ now + Step <= MaxTicks * Step
    /\ now' = now + Step
    /\ UNCHANGED <<issued, credentials, configuration, openRouterCredentials,
                   redditInteraction, youTubeCommentInteraction, log, posted,
                   started, faults, run, fin, cron, signup>>

InitPipeline ==
    /\ now = 0
    /\ issued = 1
    /\ credentials =
           [a \in Accounts |->
               [accessToken |-> 1, refreshToken |-> 1,
                tokenExpiresAt |-> ExpiresIn, identity |-> OwnIdentity(a)]]
    /\ configuration =
           [a \in Accounts |->
               [enabled |-> TRUE, keywords |-> "ai", timeRange |-> "month",
                minimum |-> NoNumber]]
    /\ openRouterCredentials =
           [a \in Accounts |-> [apiKey |-> TRUE, selectedModel |-> TRUE]]
    /\ redditInteraction = {}
    /\ youTubeCommentInteraction = {}
    /\ log = {}
    /\ posted = {}
    /\ started = 0
    /\ faults = 0
    /\ run = [h \in Handlers |-> IdleRun]

\* the pipelines run; the filter and the selector are not applied on their own
NoInput ==
    [platform |-> NULL, posts |-> <<>>, replied |-> {}, x |-> 0, y |-> 0,
     done |-> FALSE, eligible |-> <<>>, sizeX |-> 0, sizeY |-> 0,
     selected |-> NoCandidate]

\* process.env.CRON_SECRET when the variable is not set
Undefined == "(undefined)"

\* no request has reached the cron endpoint
NoCron ==
    [env |-> CRON_SECRET, pc |-> "idle", authHeader |-> NULL, startedAt |-> 0,
     enabledConfigs |-> <<>>, queue |-> <<>>, results |-> <<>>, invoked |-> <<>>,
     status |-> 0]

\* no invite, no user, no signup request
NoSignup ==
    [invite |-> [token |-> NULL, email |-> NULL, usedAt |-> NoDate, expiresAt |-> NoDate],
     user |-> {}, account |-> {}, signupAttempts |-> 0, req |-> <<>>]

Init ==
    /\ InitPipeline
    /\ fin = NoInput
    /\ cron = NoCron
    /\ signup = NoSignup

\* a step of the request that handler h serves
Handle(h) ==
    \/ RedditStart(h)
    \/ RedditRefresh(h)
    \/ RedditSearch(h)
    \/ RedditFilter(h)
    \/ RedditGenerate(h)
    \/ RedditPublish(h)
    \/ RedditStore(h)
    \/ RedditCleanup(h)
    \/ YouTubeStart(h)
    \/ YouTubeRefresh(h)
    \/ YouTubePersist(h)
    \/ YouTubeVideos(h)
    \/ YouTubeComments(h)
    \/ YouTubeFilter(h)
    \/ YouTubeGenerate(h)
    \/ YouTubePublish(h)
    \/ YouTubeStore(h)
    \/ YouTubeCleanup(h)

Next ==
    \/ Tick
    \/ \E h \in Handlers : Handle(h)

\* requests of any accounts, at most two of them in flight at once
Spec == Init /\ [][Next]_vars

\* non-overlapping runs: one handler serves the requests one after another
NextSeq ==
    \/ Tick
    \/ Handle(1)

SpecSeq == Init /\ [][NextSeq]_vars

-----------------------------------------------------------------------------
(* Accounts as their owners can have set them up *)

\* an account with everything in place
Connected ==
    [accessToken |-> 1, refreshToken |-> 1, tokenExpiresAt |-> ExpiresIn,
     keywords |-> "ai", linked |-> TRUE, apiKey |-> TRUE, selectedModel |-> TRUE]

\* what the OAuth callbacks and the settings routes can have left behind: a
\* token response without refresh_token or without expiry, a token close to
\* its expiry, no OAuth connection, no keywords or no linked channel, no
\* OpenRouter key, no model
Setups ==
    {Connected,
     [Connected EXCEPT !.refreshToken = NoToken],
     [Connected EXCEPT !.refreshToken = NoToken, !.tokenExpiresAt = FiveMinutes],
     [Connected EXCEPT !.refreshToken = NoToken, !.tokenExpiresAt = NoDate],
     [Connected EXCEPT !.tokenExpiresAt = FiveMinutes],
     [Connected EXCEPT !.accessToken = NoToken, !.refreshToken = NoToken,
                       !.tokenExpiresAt = NoDate],
     [Connected EXCEPT !.keywords = "", !.linked = FALSE],
     [Connected EXCEPT !.apiKey = FALSE],
     [Connected EXCEPT !.selectedModel = FALSE]}

InitSetup ==
    /\ now = 0
    /\ issued = 1
    /\ \E s \in Setups :
          /\ credentials =
                 [a \in Accounts |->
                     [accessToken |-> s.accessToken, refreshToken |-> s.refreshToken,
                      tokenExpiresAt |-> s.tokenExpiresAt,
                      identity |-> IF a \in YouTubeAccounts /\ ~s.linked
                                   THEN NULL ELSE OwnIdentity(a)]]
          /\ configuration =
                 [a \in Accounts |->
                     [enabled |-> TRUE, keywords |-> s.keywords, timeRange |-> "month",
                      minimum |-> NoNumber]]
          /\ openRouterCredentials =
                 [a \in Accounts |-> [apiKey |-> s.apiKey, selectedModel |-> s.selectedModel]]
    /\ redditInteraction = {}
    /\ youTubeCommentInteraction = {}
    /\ log = {}
    /\ posted = {}
    /\ started = 0
    /\ faults = 0
    /\ run = [h \in Handlers |-> IdleRun]
    /\ fin = NoInput
    /\ cron = NoCron
    /\ signup = NoSignup

\* non-overlapping runs on accounts of any setup
SpecSetup == InitSetup /\ [][NextSeq]_vars

-----------------------------------------------------------------------------
(* Accounts with a history of replies *)

\* the row of the reply to c1, made when c1 appeared
FirstReddit ==
    [rowId |-> 0, accountId |-> "r1", postId |-> "c1", postAuthor |-> "other",
     upvotes |-> 12, ourComment |-> 3, ourCommentId |-> 0, createdAt |-> 0, repliedAt |-> 0]

FirstYouTube ==
    [rowId |-> 0, accountId |-> "y1", commentId |-> "c1", videoId |-> "v1",
     authorChannelId |-> "other", likeCount |-> 12, ourReply |-> 3, ourReplyId |-> 0,
     createdAt |-> 0, repliedAt |-> 0]

\* the rows of the replies of the runs since, one a minute, to posts that the
\* search returns no more
LaterReddit ==
    {[rowId |-> 0 - k, accountId |-> "r1", postId |-> ToString(k), postAuthor |-> "other",
      upvotes |-> 12, ourComment |-> 3, ourCommentId |-> 0 - k,
      createdAt |-> k, repliedAt |-> k] : k \in 1..(KeepInteractions - 1)}

\* a week and a minute after the reply to c1, and as long before c2 appears:
\* the Reddit account has replied KeepInteractions times, the YouTube account
\* once
InitRetention ==
    /\ now = Step
    /\ issued = 1
    /\ credentials =
           [a \in Accounts |->
               [accessToken |-> 1, refreshToken |-> 1,
                tokenExpiresAt |-> ExpiresIn, identity |-> OwnIdentity(a)]]
    /\ configuration =
           [a \in Accounts |->
               [enabled |-> TRUE, keywords |-> "ai", timeRange |-> "month",
                minimum |-> NoNumber]]
    /\ openRouterCredentials =
           [a \in Accounts |-> [apiKey |-> TRUE, selectedModel |-> TRUE]]
    /\ redditInteraction = {FirstReddit} \cup LaterReddit
    /\ youTubeCommentInteraction = {FirstYouTube}
    /\ log = {}
    /\ posted = {[replyId |-> 0, accountId |-> a, parentId |-> "c1", text |-> 3] :
                    a \in Accounts}
    /\ started = 0
    /\ faults = 0
    /\ run = [h \in Handlers |-> IdleRun]
    /\ fin = NoInput
    /\ cron = NoCron
    /\ signup = NoSignup

\* non-overlapping runs of accounts with a history
SpecRetention == InitRetention /\ [][NextSeq]_vars

-----------------------------------------------------------------------------
(* Two Reddit accounts whose runs overlap *)

TwoRedditAccounts == {"r1", "r2"}

\* the row of a reply of the second account, made when c1 appeared, to a post
\* that the search returns no more
OtherReddit ==
    [rowId |-> 0, accountId |-> "r2", postId |-> "c0", postAuthor |-> "other",
     upvotes |-> 12, ourComment |-> 3, ourCommentId |-> 0, createdAt |-> 0, repliedAt |-> 0]

\* the first account has replied KeepInteractions times, c1 among the posts;
\* the second account has replied once, and not to c1
InitAccounts ==
    /\ now = Step
    /\ issued = 1
    /\ credentials =
           [a \in TwoRedditAccounts |->
               [accessToken |-> 1, refreshToken |-> 1,
                tokenExpiresAt |-> ExpiresIn, identity |-> OwnIdentity(a)]]
    /\ configuration =
           [a \in TwoRedditAccounts |->
               [enabled |-> TRUE, keywords |-> "ai", timeRange |-> "month",
                minimum |-> NoNumber]]
    /\ openRouterCredentials =
           [a \in TwoRedditAccounts |-> [apiKey |-> TRUE, selectedModel |-> TRUE]]
    /\ redditInteraction = {FirstReddit, OtherReddit} \cup LaterReddit
    /\ youTubeCommentInteraction = {}
    /\ log = {}
    /\ posted = {[replyId |-> 0, accountId |-> "r1", parentId |-> "c1", text |-> 3]}
    /\ started = 0
    /\ faults = 0
    /\ run = [h \in Handlers |-> IdleRun]
    /\ fin = NoInput
    /\ cron = NoCron
    /\ signup = NoSignup

HandleReddit(h) ==
    \/ RedditStart(h)
    \/ RedditRefresh(h)
    \/ RedditSearch(h)
    \/ RedditFilter(h)
    \/ RedditGenerate(h)
    \/ RedditPublish(h)
    \/ RedditStore(h)
    \/ RedditCleanup(h)

NextAccounts ==
    \/ Tick
    \/ \E h \in Handlers : HandleReddit(h)

\* runs of the two Reddit accounts, at most two of them in flight at once
SpecAccounts == InitAccounts /\ [][NextAccounts]_vars

-----------------------------------------------------------------------------
(* The OAuth callbacks and the disconnect route *)

InstagramAccounts == {"i1"}

\* GET of the YouTube callback, from the token exchange on: the token response
\* carries a refresh_token or not, and an undefined refresh_token leaves the
\* column as it is
YouTubeCallback ==
    /\ issued < MaxIssued
    /\ \E accountId \in YouTubeAccounts, withRefreshToken \in BOOLEAN :
          credentials' =
              [credentials EXCEPT
                  ![accountId].accessToken = issued + 1,
                  ![accountId].refreshToken = IF withRefreshToken THEN issued + 1 ELSE @,
                  ![accountId].tokenExpiresAt = now + ExpiresIn,
                  ![accountId].identity = OwnIdentity(accountId)]
    /\ issued' = issued + 1
    /\ UNCHANGED <<now, configuration, openRouterCredentials, redditInteraction,
                   youTubeCommentInteraction, log, posted, started, faults, run, fin, cron, signup>>

\* POST of the YouTube disconnect route: tokens and channel set to null
YouTubeDisconnect ==
    /\ \E accountId \in YouTubeAccounts :
          /\ credentials[accountId] # NoCredentials
          /\ credentials' = [credentials EXCEPT ![accountId] = NoCredentials]
    /\ UNCHANGED <<now, issued, configuration, openRouterCredentials, redditInteraction,
                   youTubeCommentInteraction, log, posted, started, faults, run, fin, cron, signup>>

\* GET of the Instagram callback, from the token exchange on: the page access
\* token, its expiry and the Instagram account are saved
InstagramCallback ==
    /\ issued < MaxIssued
    /\ \E accountId \in InstagramAccounts :
          credentials' =
              [credentials EXCEPT
                  ![accountId].accessToken = issued + 1,
                  ![accountId].tokenExpiresAt = now + ExpiresIn,
                  ![accountId].identity = "ig"]
    /\ issued' = issued + 1
    /\ UNCHANGED <<now, configuration, openRouterCredentials, redditInteraction,
                   youTubeCommentInteraction, log, posted, started, faults, run, fin, cron, signup>>

\* no account is connected yet
InitOAuth ==
    /\ now = 0
    /\ issued = 1
    /\ credentials = [a \in Accounts \cup InstagramAccounts |-> NoCredentials]
    /\ configuration =
           [a \in Accounts \cup InstagramAccounts |->
               [enabled |-> TRUE, keywords |-> "ai", timeRange |-> "month",
                minimum |-> NoNumber]]
    /\ openRouterCredentials =
           [a \in Accounts \cup InstagramAccounts |->
               [apiKey |-> TRUE, selectedModel |-> TRUE]]
    /\ redditInteraction = {}
    /\ youTubeCommentInteraction = {}
    /\ log = {}
    /\ posted = {}
    /\ started = 0
    /\ faults = 0
    /\ run = [h \in Handlers |-> IdleRun]
    /\ fin = NoInput
    /\ cron = NoCron
    /\ signup = NoSignup

\* a step of the YouTube request that handler h serves
HandleYouTube(h) ==
    \/ YouTubeStart(h)
    \/ YouTubeRefresh(h)
    \/ YouTubePersist(h)
    \/ YouTubeVideos(h)
    \/ YouTubeComments(h)
    \/ YouTubeFilter(h)
    \/ YouTubeGenerate(h)
    \/ YouTubePublish(h)
    \/ YouTubeStore(h)
    \/ YouTubeCleanup(h)

NextOAuth ==
    \/ YouTubeCallback
    \/ YouTubeDisconnect
    \/ InstagramCallback
    \/ Tick
    \/ HandleYouTube(1)

\* connects, disconnects and non-overlapping YouTube runs
SpecOAuth == InitOAuth /\ [][NextOAuth]_vars

-----------------------------------------------------------------------------
(* The cron endpoint of the YouTube pipeline and the toggle route *)

CronAccounts == {"y1", "y2"}
Schedules == {"every_5_min", "every_10_min", "weekly"}
AuthHeaders == {NULL, "Bearer s3cret", "Bearer wrong", "Bearer undefined"}

\* ${value} of a template literal
TemplateString(value) == IF value = Undefined THEN "undefined" ELSE value

\* `Bearer ${process.env.CRON_SECRET}`
Bearer(secret) == "Bearer " \o TemplateString(secret)

\* new Date().getMinutes() and getHours(), time being minutes
getMinutes(t) == t % 60
getHours(t) == (t \div 60) % 24

checkSchedule(schedule, t) ==
    CASE schedule = "every_5_min" -> TRUE
      [] schedule = "every_10_min" -> getMinutes(t) % 10 = 0
      [] schedule = "every_30_min" -> getMinutes(t) = 0 \/ getMinutes(t) = 30
      [] schedule = "every_hour" -> getMinutes(t) = 0
      [] schedule = "every_3_hours" -> getMinutes(t) = 0 /\ getHours(t) % 3 = 0
      [] schedule = "every_6_hours" -> getMinutes(t) = 0 /\ getHours(t) % 6 = 0
      [] OTHER -> getMinutes(t) = 0

\* what the fetch of /api/youtube/run can come back with: the responses of the
\* run endpoint, or a rejection of the fetch
RunResponses ==
    {[thrown |-> FALSE, status |-> 200, replied |-> TRUE, message |-> NULL, error |-> NULL],
     [thrown |-> FALSE, status |-> 200, replied |-> FALSE,
      message |-> "No comments found matching criteria", error |-> NULL],
     [thrown |-> FALSE, status |-> 500, replied |-> FALSE, message |-> NULL,
      error |-> "Pipeline failed unexpectedly"],
     [thrown |-> TRUE, status |-> 0, replied |-> FALSE, message |-> NULL,
      error |-> "fetch failed"]}

\* the entry of results that the loop pushes for a response
RunResult(accountId, response) ==
    IF response.thrown
    THEN [accountId |-> accountId, success |-> FALSE, message |-> response.error]
    ELSE IF response.status = 200
    THEN [accountId |-> accountId, success |-> TRUE,
          message |-> IF response.replied THEN "Replied to"
                      ELSE IF response.message # NULL THEN response.message
                      ELSE "No action needed"]
    ELSE [accountId |-> accountId, success |-> FALSE,
          message |-> IF response.error # NULL THEN response.error ELSE "Unknown error"]

\* a row of findMany({where: {enabled: true}, include: {account: {include:
\* {youtubeCredentials: true}}}})
EnabledConfig(a) ==
    [accountId |-> a, schedule |-> configuration[a].schedule,
     accessToken |-> credentials[a].accessToken, channelId |-> credentials[a].identity]

\* the orders in which the rows of a set of accounts can come
Orderings(accounts) ==
    {order \in [1..Cardinality(accounts) -> accounts] :
        \A i, j \in DOMAIN order : i # j => order[i] # order[j]}

\* the loop has taken the head of the queue; after the last row, the response
CronContinue(c) ==
    IF Len(c.queue) = 1
    THEN [c EXCEPT !.queue = <<>>, !.pc = "done", !.status = 200]
    ELSE [c EXCEPT !.queue = Tail(@)]

\* GET of the cron endpoint up to the loop: the authorization check and the
\* query of the enabled configurations; the cron fires every five minutes
CronStart ==
    /\ cron.pc \in {"idle", "done"}
    /\ started < MaxRequests
    /\ started' = started + 1
    /\ now' = IF cron.pc = "idle" THEN now ELSE cron.startedAt + FiveMinutes
    /\ \E authHeader \in AuthHeaders, dbOk \in BOOLEAN :
        LET request == [NoCron EXCEPT !.env = cron.env, !.authHeader = authHeader,
                                      !.startedAt = now']
            enabled == {a \in DOMAIN configuration : configuration[a].enabled}
        IN  IF authHeader # Bearer(cron.env)
            THEN cron' = [request EXCEPT !.pc = "done", !.status = 401]
            ELSE IF ~dbOk
            THEN cron' = [request EXCEPT !.pc = "done", !.status = 500]
            ELSE \E order \in Orderings(enabled) :
                    LET enabledConfigs == [i \in DOMAIN order |-> EnabledConfig(order[i])]
                    IN  cron' = IF enabledConfigs = <<>>
                                THEN [request EXCEPT !.pc = "done", !.status = 200]
                                ELSE [request EXCEPT !.pc = "loop",
                                                     !.enabledConfigs = enabledConfigs,
                                                     !.queue = enabledConfigs]
    /\ UNCHANGED <<issued, credentials, configuration, openRouterCredentials,
                   redditInteraction, youTubeCommentInteraction, log, posted, faults, run,
                   fin, signup>>

\* one iteration of "for (const config of enabledConfigs)": the credentials of
\* the row, the schedule against the clock, the fetch of the run endpoint, which
\* takes time, and the push of its result
CronNext ==
    /\ cron.pc = "loop"
    /\ LET config == Head(cron.queue)
       IN  IF config.accessToken = NoToken \/ config.channelId = NULL
           THEN /\ cron' = CronContinue([cron EXCEPT !.results =
                               Append(@, [accountId |-> config.accountId, success |-> FALSE,
                                          message |-> "Missing YouTube credentials"])])
                /\ now' = now
           ELSE IF ~checkSchedule(config.schedule, now)
           THEN /\ cron' = CronContinue(cron)
                /\ now' = now
           ELSE \E response \in RunResponses, elapsed \in 0..MaxCronMinutes :
                   /\ now + elapsed - cron.startedAt <= MaxCronMinutes
                   /\ now' = now + elapsed
                   /\ cron' = CronContinue(
                          [cron EXCEPT !.invoked = Append(@, config.accountId),
                                       !.results = Append(@, RunResult(config.accountId,
                                                                       response))])
    /\ UNCHANGED <<issued, credentials, configuration, openRouterCredentials,
                   redditInteraction, youTubeCommentInteraction, log, posted, started, faults,
                   run, fin, signup>>

\* POST of the toggle route: the configuration is updated and the action logged
YouTubeToggle ==
    /\ \E accountId \in DOMAIN configuration, enabled \in BOOLEAN :
        /\ configuration' = [configuration EXCEPT ![accountId].enabled = enabled]
        /\ log' = log \cup
                     {[accountId |-> accountId, req |-> 0, level |-> "info",
                       message |-> IF enabled THEN "YouTube automation enabled"
                                   ELSE "YouTube automation disabled",
                       detail |-> NULL]}
    /\ UNCHANGED <<now, issued, credentials, openRouterCredentials, redditInteraction,
                   youTubeCommentInteraction, posted, started, faults, run, fin, cron, signup>>

\* accounts enabled or not, connected or not, on any schedule; the cron secret
\* set in the environment or not; the first request on a minute that is a
\* multiple of ten
InitCron ==
    /\ now \in {0, 10}
    /\ issued = 1
    /\ \E connected \in SUBSET CronAccounts :
           credentials =
               [a \in CronAccounts |->
                   IF a \in connected
                   THEN [accessToken |-> 1, refreshToken |-> 1,
                         tokenExpiresAt |-> ExpiresIn, identity |-> OwnIdentity("y1")]
                   ELSE NoCredentials]
    /\ \E enabled \in SUBSET CronAccounts, schedule \in [CronAccounts -> Schedules] :
           configuration =
               [a \in CronAccounts |->
                   [enabled |-> a \in enabled, schedule |-> schedule[a],
                    keywords |-> "ai", timeRange |-> "month", minimum |-> NoNumber]]
    /\ openRouterCredentials =
           [a \in CronAccounts |-> [apiKey |-> TRUE, selectedModel |-> TRUE]]
    /\ redditInteraction = {}
    /\ youTubeCommentInteraction = {}
    /\ log = {}
    /\ posted = {}
    /\ started = 0
    /\ faults = 0
    /\ run = [h \in Handlers |-> IdleRun]
    /\ fin = NoInput
    /\ \E env \in {CRON_SECRET, Undefined} : cron = [NoCron EXCEPT !.env = env]
    /\ signup = NoSignup

NextCron ==
    \/ CronStart
    \/ CronNext
    \/ YouTubeToggle
    \/ YouTubeDisconnect

\* cron requests one after another, with toggles and disconnects at any moment
SpecCron == InitCron /\ [][NextCron]_vars

-----------------------------------------------------------------------------
(* The signup endpoint *)

SignupRequests == 1..MaxSignups
Emails == {"a@x.io", "A@x.io", "b@x.io"}
Tokens == {"t1", "bad"}
Platforms == <<"twitter", "youtube", "instagram", "reddit">>

\* email.toLowerCase()
toLowerCase(email) == IF email = "A@x.io" THEN "a@x.io" ELSE email

NoSignupRequest == [pc |-> "idle", email |-> NULL, token |-> NULL, status |-> 0, error |-> NULL]

\* return NextResponse.json({error}, {status})
SignupRespond(r, status, error) == [r EXCEPT !.pc = "done", !.status = status, !.error = error]

\* a user table without the unique index on email (a faulty variant, to test
\* C30 against)
noUniqueIndex(user, email) == FALSE

\* the unique index on user.email, which findUnique({where: {email}}) relies
\* on, rejects a second row with the email
emailTaken(user, email) == \E u \in user : u.email = email

\* POST up to the invite lookup: the rate limiter of the client's address and
\* the validation of the body
SignupStart(i) ==
    /\ signup.req[i].pc = "idle"
    /\ \A j \in SignupRequests : j < i => signup.req[j].pc # "idle"
    /\ \E email \in Emails, token \in Tokens \cup {NULL}, passwordLength \in {7, 8} :
        LET r == [NoSignupRequest EXCEPT !.email = email, !.token = token]
            isRateLimited == signup.signupAttempts >= MAX_ATTEMPTS
            attempts == IF signup.signupAttempts = 0 THEN 1
                        ELSE IF isRateLimited THEN signup.signupAttempts
                        ELSE signup.signupAttempts + 1
            next == IF isRateLimited
                    THEN SignupRespond(r, 429, "Too many signup attempts")
                    ELSE IF token = NULL
                    THEN SignupRespond(r, 400, "Email, password, and invite token are required")
                    ELSE IF passwordLength < MinPasswordLength
                    THEN SignupRespond(r, 400, "Password must be at least 8 characters")
                    ELSE [r EXCEPT !.pc = "invite"]
        IN  signup' = [signup EXCEPT !.signupAttempts = attempts, !.req[i] = next]
    /\ UNCHANGED <<pipelineVars, fin, cron>>

\* db.invite.findUnique({where: {token}}) and the checks of the invite
SignupInvite(i) ==
    /\ signup.req[i].pc = "invite"
    /\ LET r == signup.req[i]
           invite == signup.invite
           next == IF r.token # invite.token
                   THEN SignupRespond(r, 400, "Invalid invite token")
                   ELSE IF now > invite.expiresAt
                   THEN SignupRespond(r, 400, "Invite token has expired")
                   ELSE IF invite.usedAt # NoDate
                   THEN SignupRespond(r, 400, "Invite token has already been used")
                   ELSE IF toLowerCase(invite.email) # toLowerCase(r.email)
                   THEN SignupRespond(r, 400, "Email does not match the invite")
                   ELSE [r EXCEPT !.pc = "user"]
       IN  signup' = [signup EXCEPT !.req[i] = next]
    /\ UNCHANGED <<pipelineVars, fin, cron>>

\* db.user.findUnique({where: {email: email.toLowerCase()}}), then the hash
SignupUser(i) ==
    /\ signup.req[i].pc = "user"
    /\ LET r == signup.req[i]
           existingUser == {u \in signup.user : u.email = toLowerCase(r.email)}
           next == IF existingUser # {}
                   THEN SignupRespond(r, 400, "User with this email already exists")
                   ELSE [r EXCEPT !.pc = "create"]
       IN  signup' = [signup EXCEPT !.req[i] = next]
    /\ UNCHANGED <<pipelineVars, fin, cron>>

\* db.$transaction: the user, the default accounts of the four platforms and
\* the invite marked used, all or nothing; a throw reaches the catch
SignupCreate(i) ==
    /\ signup.req[i].pc = "create"
    /\ \E dbOk \in BOOLEAN :
        LET r == signup.req[i]
            email == toLowerCase(r.email)
        IN  IF ~dbOk \/ emailTaken(signup.user, email)
            THEN signup' = [signup EXCEPT
                               !.req[i] = SignupRespond(r, 500, "Failed to create account")]
            ELSE signup' = [signup EXCEPT
                               !.user = @ \cup {[id |-> i, email |-> email]},
                               !.account = @ \cup {[userId |-> i, platform |-> Platforms[k],
                                                    order |-> k - 1] : k \in DOMAIN Platforms},
                               !.invite.usedAt = now,
                               !.req[i] = SignupRespond(r, 200, NULL)]
    /\ UNCHANGED <<pipelineVars, fin, cron>>

\* an invite for a@x.io, valid or expired; the address has signed up before or
\* not; the client has made no attempt, or four
InitSignup ==
    /\ InitPipeline
    /\ fin = NoInput
    /\ cron = NoCron
    /\ \E inviteEmail \in {"a@x.io", "A@x.io"}, expired \in BOOLEAN, exists \in BOOLEAN,
          attempts \in {0, MAX_ATTEMPTS - 1} :
           signup = [invite |-> [token |-> "t1", email |-> inviteEmail, usedAt |-> NoDate,
                                 expiresAt |-> IF expired THEN NoDate ELSE SevenDays],
                     user |-> IF exists THEN {[id |-> 0, email |-> "a@x.io"]} ELSE {},
                     account |-> {},
                     signupAttempts |-> attempts,
                     req |-> [i \in SignupRequests |-> NoSignupRequest]]

NextSignup ==
    \E i \in SignupRequests :
        \/ SignupStart(i)
        \/ SignupInvite(i)
        \/ SignupUser(i)
        \/ SignupCreate(i)

\* signup requests for one invite, overlapping in any way
SpecSignup == InitSignup /\ [][NextSignup]_vars

-----------------------------------------------------------------------------
(* The eligibility filter and the selector on their own *)

\* scores around the thresholds, and the thresholds a configuration can hold
\* (NoNumber: no configuration row, or none read)
FilterIds == ContentIds \cup {"c4"}
FilterScores == {4, 7, 12}
Minimums == {NoNumber, 0, 5, 12}

FilterAccount(platform) == IF platform = "reddit" THEN "r1" ELSE "y1"

\* a platform, a fetched list, an "already replied" set and two thresholds
InitFilter ==
    /\ InitPipeline
    /\ \E pf \in {"reddit", "youtube"} :
        \E posts \in CandidateLists(FilterAccount(pf), FilterIds, FilterScores, MaxList),
           replied \in SUBSET {"c1"}, x \in Minimums, y \in Minimums :
            fin = [NoInput EXCEPT !.platform = pf, !.posts = posts, !.replied = replied,
                                  !.x = x, !.y = y]
    /\ cron = NoCron
    /\ signup = NoSignup

\* the Reddit run's filter and sort on fin.posts, under threshold x and under y
RedditSelect ==
    /\ fin.platform = "reddit"
    /\ ~fin.done
    /\ LET underX == eligiblePosts(fin.posts, fin.replied, fin.x, OwnIdentity("r1"))
           underY == eligiblePosts(fin.posts, fin.replied, fin.y, OwnIdentity("r1"))
       IN  fin' = [fin EXCEPT !.done = TRUE, !.eligible = underX,
                              !.sizeX = Len(underX), !.sizeY = Len(underY),
                              !.selected = selectTarget(underX)]
    /\ UNCHANGED <<pipelineVars, cron, signup>>

\* the YouTube run's filters and sort on fin.posts, under threshold x and under y
YouTubeSelect ==
    /\ fin.platform = "youtube"
    /\ ~fin.done
    /\ LET underX == unrepliedComments(filteredComments(fin.posts, fin.x), fin.replied)
           underY == unrepliedComments(filteredComments(fin.posts, fin.y), fin.replied)
       IN  fin' = [fin EXCEPT !.done = TRUE, !.eligible = underX,
                              !.sizeX = Len(underX), !.sizeY = Len(underY),
                              !.selected = selectTarget(underX)]
    /\ UNCHANGED <<pipelineVars, cron, signup>>

NextFilter ==
    \/ RedditSelect
    \/ YouTubeSelect

SpecFilter == InitFilter /\ [][NextFilter]_vars

-----------------------------------------------------------------------------
(* Properties *)

HasRecord(accountId, id) ==
    \/ \E x \in redditInteraction : x.accountId = accountId /\ x.postId = id
    \/ \E x \in youTubeCommentInteraction : x.accountId = accountId /\ x.commentId = id

RecordsOf(accountId, id) ==
    {x \in redditInteraction : x.accountId = accountId /\ x.postId = id}
    \cup {x \in youTubeCommentInteraction : x.accountId = accountId /\ x.commentId = id}

\* the step in which handler h's upsert succeeds
Stored(h) == run[h].pc = "store" /\ run'[h].pc = "cleanup"

\* C1: in non-overlapping runs (SpecSeq) a content id that has an interaction
\* record of the account is not what the filter lets the run select, and no
\* reply is published to a content id that has a record at that moment
C1_RecordedContentExcluded ==
    [][\A h \in Handlers :
        /\ run[h].pc = "filter" /\ run'[h].pc = "generate"
              => /\ ~HasRecord(run[h].accountId, run'[h].target.id)
                 /\ \A id \in run'[h].passed : ~HasRecord(run[h].accountId, id)
        /\ run[h].pc = "publish" /\ posted' # posted
              => /\ ~HasRecord(run[h].accountId, run[h].target.id)
                 /\ \A p \in posted' \ posted : ~HasRecord(p.accountId, p.parentId)]_vars

\* a later run has fetched content with a record, skipped it, and published a
\* reply to other content
C1_Witness ==
    \E h \in Handlers :
        /\ run[h].pc = "store"
        /\ run[h].req > 1
        /\ run[h].skipped # {}
        /\ \A id \in run[h].skipped : HasRecord(run[h].accountId, id)
        /\ run[h].target.id \notin run[h].skipped
        /\ \E p \in posted : p.replyId = run[h].req /\ p.parentId = run[h].target.id

\* C2: whatever the overlap of the invocations, the interaction store holds at
\* most one record per (account, content id)
C2_AtMostOneRecord ==
    /\ \A x, y \in redditInteraction :
          x.accountId = y.accountId /\ x.postId = y.postId => x = y
    /\ \A x, y \in youTubeCommentInteraction :
          x.accountId = y.accountId /\ x.commentId = y.commentId => x = y

\* with no failure at all, two invocations have both replied to the same
\* content of the same account, and the store holds one record for it
C2_Witness ==
    /\ faults = 0
    /\ \A h \in Handlers : run[h].pc = "done" /\ run[h].replied /\ run[h].status = 200
    /\ \E p, q \in posted :
          /\ p.replyId # q.replyId
          /\ p.accountId = q.accountId
          /\ p.parentId = q.parentId
          /\ Cardinality(RecordsOf(p.accountId, p.parentId)) = 1

\* C3 as stated: after an upsert there is one record for the key, and every
\* field the call carries is the record's
C3_SecondCallOverwrites ==
    [][\A h \in Handlers : Stored(h) =>
        LET me == run[h]
        IN  IF me.platform = "reddit"
            THEN LET rows == {x \in redditInteraction' :
                                 x.accountId = me.accountId /\ x.postId = me.target.id}
                 IN  /\ Cardinality(rows) = 1
                     /\ \A x \in rows :
                           /\ x.postAuthor = me.target.author
                           /\ x.upvotes = me.target.score
                           /\ x.ourComment = me.generatedReply
                           /\ x.ourCommentId = me.replyId
                           /\ x.repliedAt = now
            ELSE LET rows == {x \in youTubeCommentInteraction' :
                                 x.accountId = me.accountId /\ x.commentId = me.target.id}
                 IN  /\ Cardinality(rows) = 1
                     /\ \A x \in rows :
                           /\ x.videoId = me.target.videoId
                           /\ x.authorChannelId = me.target.author
                           /\ x.likeCount = me.target.score
                           /\ x.ourReply = me.generatedReply
                           /\ x.ourReplyId = me.replyId
                           /\ x.repliedAt = now]_vars

\* C3, amended: after an upsert there is one record for the key; the reply
\* text, the reply id and the reply time are the call's; on YouTube so are the
\* comment's fields, while on Reddit the post's fields are the call's only if
\* the call created the record, and are otherwise left as they were
C3_ReplyFieldsOverwritten ==
    [][\A h \in Handlers : Stored(h) =>
        LET me == run[h]
        IN  IF me.platform = "reddit"
            THEN LET old == {x \in redditInteraction :
                                x.accountId = me.accountId /\ x.postId = me.target.id}
                     rows == {x \in redditInteraction' :
                                 x.accountId = me.accountId /\ x.postId = me.target.id}
                 IN  /\ Cardinality(rows) = 1
                     /\ \A x \in rows :
                           /\ x.ourComment = me.generatedReply
                           /\ x.ourCommentId = me.replyId
                           /\ x.repliedAt = now
                           /\ old = {} => /\ x.postAuthor = me.target.author
                                          /\ x.upvotes = me.target.score
                                          /\ x.createdAt = now
                           /\ \A o \in old : /\ x.postAuthor = o.postAuthor
                                             /\ x.upvotes = o.upvotes
                                             /\ x.createdAt = o.createdAt
            ELSE LET old == {x \in youTubeCommentInteraction :
                                x.accountId = me.accountId /\ x.commentId = me.target.id}
                     rows == {x \in youTubeCommentInteraction' :
                                 x.accountId = me.accountId /\ x.commentId = me.target.id}
                 IN  /\ Cardinality(rows) = 1
                     /\ \A x \in rows :
                           /\ x.videoId = me.target.videoId
                           /\ x.authorChannelId = me.target.author
                           /\ x.likeCount = me.target.score
                           /\ x.ourReply = me.generatedReply
                           /\ x.ourReplyId = me.replyId
                           /\ x.repliedAt = now
                           /\ old = {} => x.createdAt = now
                           /\ \A o \in old : x.createdAt = o.createdAt]_vars

\* a second upsert has written its reply into the record another request
\* created, and the record's upvotes are not the second call's
C3_Witness ==
    \E h \in Handlers :
        /\ run[h].pc = "cleanup"
        /\ run[h].platform = "reddit"
        /\ \E x \in redditInteraction :
              /\ x.accountId = run[h].accountId
              /\ x.postId = run[h].target.id
              /\ x.rowId # run[h].req
              /\ x.ourCommentId = run[h].replyId
              /\ x.upvotes # run[h].target.score

\* C4 as stated: a run whose interaction-store write threw after the publish
\* responds 200 with replied: true, and a warning is in the log
C4_StoreFailureTolerated ==
    \A h \in Handlers :
        run[h].pc = "done" /\ "store" \in run[h].failed
            => /\ run[h].status = 200
               /\ run[h].replied
               /\ \E l \in log : l.req = run[h].req /\ l.level = "warning"

\* the Reddit run does so
C4_Witness ==
    \E h \in Handlers :
        /\ run[h].pc = "done"
        /\ run[h].platform = "reddit"
        /\ "store" \in run[h].failed
        /\ run[h].status = 200
        /\ run[h].replied
        /\ \E l \in log : l.req = run[h].req /\ l.level = "warning"
        /\ \E p \in posted : p.replyId = run[h].req

\* C5 as stated: no run selects, and no reply answers, content whose author is
\* the account's own identity
C5_NoSelfReply ==
    /\ \A h \in Handlers :
          run[h].target.id # NULL
              => run[h].target.author # OwnIdentity(run[h].accountId)
    /\ \A p \in posted :
          ContentAuthor(p.accountId, p.parentId) # OwnIdentity(p.accountId)

\* C6 as stated: for the same list and replied set, the eligible list under
\* a minimum y is no longer than under a minimum x < y, x = 0 included
C6_RaisingMinimumNeverIncreases ==
    fin.done /\ fin.x >= 0 /\ fin.y > fin.x => fin.sizeY <= fin.sizeX

\* C7: the selected candidate is the first of the eligible list, in fetch
\* order, among those of the highest score
C7_SelectsFirstTopScore ==
    fin.done /\ fin.eligible # <<>>
        => \E i \in DOMAIN fin.eligible :
              /\ fin.selected = fin.eligible[i]
              /\ \A j \in DOMAIN fin.eligible :
                    /\ fin.eligible[j].score <= fin.eligible[i].score
                    /\ j < i => fin.eligible[j].score < fin.eligible[i].score

\* two candidates tie for the top score behind a lesser one; the first of the
\* two is selected
C7_Witness ==
    /\ fin.done
    /\ Len(fin.eligible) = 3
    /\ fin.eligible[1].score < fin.eligible[2].score
    /\ fin.eligible[2].score = fin.eligible[3].score
    /\ fin.selected = fin.eligible[2]

\* C8: every reply on a platform and every reply in an interaction record
\* has at most 500 characters
C8_ReplyAtMost500 ==
    /\ \A p \in posted : p.text <= MaxReplyChars
    /\ \A x \in redditInteraction : x.ourComment <= MaxReplyChars
    /\ \A x \in youTubeCommentInteraction : x.ourReply <= MaxReplyChars

\* a reply of exactly 500 characters, which only a longer LLM output gives,
\* is on a platform and in a record
C8_Witness ==
    /\ MaxLLMChars > MaxReplyChars
    /\ \E p \in posted :
          /\ p.text = MaxReplyChars
          /\ \E x \in RecordsOf(p.accountId, p.parentId) :
                IF p.accountId \in RedditAccounts
                THEN x.ourComment = MaxReplyChars
                ELSE x.ourReply = MaxReplyChars

\* C9: a run makes at most one LLM call and at most one publish call, its
\* target is one of the eligible candidates, and at most one reply on the
\* platforms is the run's
C9_AtMostOnePerRun ==
    /\ \A h \in Handlers :
          /\ run[h].calls.llm <= 1
          /\ run[h].calls.publish <= 1
          /\ run[h].passed # {} => run[h].target.id \in run[h].passed
    /\ \A r \in 1..started : Cardinality({p \in posted : p.replyId = r}) <= 1

\* a run with two eligible candidates has made one LLM call and one publish
\* call, and the other candidate has no reply
C9_Witness ==
    \E h \in Handlers :
        /\ run[h].pc = "cleanup"
        /\ Cardinality(run[h].passed) >= 2
        /\ run[h].calls.llm = 1
        /\ run[h].calls.publish = 1
        /\ {p.parentId : p \in {q \in posted : q.accountId = run[h].accountId}}
               = {run[h].target.id}

\* the external calls that come after a stage
LaterCalls(stage) ==
    IF stage = "refresh" THEN {"fetch", "comments", "llm", "publish", "upsert", "prune"}
    ELSE IF stage = "fetch" THEN {"comments", "llm", "publish", "upsert", "prune"}
    ELSE IF stage = "llm" THEN {"publish", "upsert", "prune"}
    ELSE {"upsert", "prune"}

\* C10: a run in which the token refresh, the fetch, the generation or the
\* publication failed has responded with a failure, has called the failed
\* stage at most once and has made no call of a later stage
C10_FailureIsTerminal ==
    \A h \in Handlers :
        \A stage \in {"refresh", "fetch", "llm", "publish"} :
            stage \in run[h].failed
                => /\ run[h].pc = "done"
                   /\ ~run[h].replied
                   /\ run[h].status \in {401, 500}
                   /\ run[h].calls[stage] <= 1
                   /\ \A k \in LaterCalls(stage) : run[h].calls[k] = 0

\* the generation of a run failed after its fetch: the run has responded 500,
\* an error is in the log and nothing was published for it
C10_Witness ==
    \E h \in Handlers :
        /\ run[h].pc = "done"
        /\ "llm" \in run[h].failed
        /\ run[h].calls.fetch = 1
        /\ run[h].calls.llm = 1
        /\ run[h].status = 500
        /\ \E l \in log : l.req = run[h].req /\ l.level = "error"
        /\ ~\E p \in posted : p.replyId = run[h].req

\* C11 as stated: a run whose stored credentials hold no refresh token ends at
\* the token step with HTTP 401 and has made no fetch, whatever the expiry of
\* the stored access token (the log being writable)
C11_NoRefreshTokenEnds401 ==
    [][\A h \in Handlers :
        /\ run[h].pc = "refresh"
        /\ run[h].creds.refreshToken = NoToken
        /\ run'[h] # run[h]
        /\ "log" \notin run'[h].failed
        => /\ run'[h].pc = "done"
           /\ run'[h].status = 401
           /\ run'[h].calls.fetch = 0]_vars

\* a Reddit run whose credentials hold no refresh token has searched for posts
C11_Witness ==
    \E h \in Handlers :
        /\ run[h].platform = "reddit"
        /\ run[h].pc = "filter"
        /\ run[h].creds.refreshToken = NoToken
        /\ run[h].calls.fetch = 1

CompletedBodies ==
    {"replied", "No eligible posts found", "No videos found on channel",
     "No comments found matching criteria",
     "All found comments have been replied to already"}

InvalidConfigurationBodies ==
    {"accountId is required", "No keywords configured", "YouTube channel not linked",
     "OpenRouter API key not configured", "No LLM model selected"}

NotConnectedBodies == {"Reddit OAuth not connected", "YouTube OAuth not connected"}

\* C13 as stated: a run responds 200 when it completed, 400 on a missing or
\* invalid configuration, 401 on a missing OAuth connection or a failed token
\* refresh, and 500 when the fetch, the generation or the publication failed
\* or the handler's catch was reached
C13_StatusByOutcome ==
    \A h \in Handlers :
        run[h].pc = "done" =>
            /\ run[h].body \in CompletedBodies => run[h].status = 200
            /\ run[h].body \in InvalidConfigurationBodies => run[h].status = 400
            /\ run[h].body \in NotConnectedBodies => run[h].status = 401
            /\ "refresh" \in run[h].failed /\ "log" \notin run[h].failed
                  => run[h].status = 401
            /\ run[h].failed \cap {"fetch", "llm", "publish"} # {} => run[h].status = 500
            /\ run[h].body \in {"Pipeline failed", "Pipeline failed unexpectedly"}
                  => run[h].status = 500

\* a run on an account without OAuth connection has responded 400, and its
\* error is in the log
C13_Witness ==
    \E h \in Handlers :
        /\ run[h].pc = "done"
        /\ run[h].body \in NotConnectedBodies
        /\ credentials[run[h].accountId].accessToken = NoToken
        /\ run[h].status = 400
        /\ \E l \in log : l.req = run[h].req /\ l.level = "error" /\ l.message = run[h].body

\* C14 as stated: a run whose fetched candidates that meet the threshold all
\* have an interaction record has responded 200 with replied: false and the
\* message "No eligible posts found", and has made no LLM call, no publish
\* call and no interaction write
C14_AllRepliedNoEligiblePosts ==
    \A h \in Handlers :
        run[h].meeting # {} /\ run[h].meeting \subseteq run[h].skipped
            => /\ run[h].pc = "done"
               /\ run[h].status = 200
               /\ ~run[h].replied
               /\ run[h].body = "No eligible posts found"
               /\ run[h].calls.llm = 0
               /\ run[h].calls.publish = 0
               /\ run[h].calls.upsert = 0
               /\ ~\E p \in posted : p.replyId = run[h].req

\* the message of the run that found everything replied to
AllRepliedMessage(platform) ==
    IF platform = "reddit" THEN "No eligible posts found"
    ELSE "All found comments have been replied to already"

\* C14, amended: such a run has responded 200 with replied: false and the
\* message of its platform, which is also in the log, and has made no LLM
\* call, no publish call and no interaction write
C14_AllRepliedNoAction ==
    \A h \in Handlers :
        run[h].meeting # {} /\ run[h].meeting \subseteq run[h].skipped
            => /\ run[h].pc = "done"
               /\ run[h].status = 200
               /\ ~run[h].replied
               /\ run[h].body = AllRepliedMessage(run[h].platform)
               /\ run[h].calls.llm = 0
               /\ run[h].calls.publish = 0
               /\ run[h].calls.upsert = 0
               /\ ~\E p \in posted : p.replyId = run[h].req

\* a YouTube run has fetched one comment with enough likes, which an earlier
\* run replied to, and has responded that all comments have been replied to
C14_Witness ==
    \E h \in Handlers :
        /\ run[h].pc = "done"
        /\ run[h].platform = "youtube"
        /\ run[h].meeting # {}
        /\ run[h].meeting \subseteq run[h].skipped
        /\ \A id \in run[h].meeting :
              \E p \in posted : p.accountId = run[h].accountId /\ p.parentId = id
        /\ run[h].status = 200
        /\ run[h].calls.comments > 0
        /\ run[h].calls.llm = 0

\* C15: a run whose LLM call was answered with an error status has responded
\* 500, has made no publish call, and the log (when it can be written) holds
\* an error row of the run that carries the text of the upstream error
C15_LLMErrorLoggedAnd500 ==
    \A h \in Handlers :
        /\ "llm" \in run[h].failed
        /\ run[h].error \in UpstreamErrors
        /\ "log" \notin run[h].failed
        => /\ run[h].pc = "done"
           /\ run[h].status = 500
           /\ ~run[h].replied
           /\ run[h].calls.publish = 0
           /\ ~\E p \in posted : p.replyId = run[h].req
           /\ \E l \in log :
                 /\ l.req = run[h].req
                 /\ l.accountId = run[h].accountId
                 /\ l.level = "error"
                 /\ l.detail = run[h].error

\* the LLM call of a run was answered "rate limited": the run has responded
\* 500 after one LLM call, and an error row of the log carries that text
C15_Witness ==
    \E h \in Handlers :
        /\ run[h].pc = "done"
        /\ "llm" \in run[h].failed
        /\ run[h].error = "rate limited"
        /\ run[h].calls.llm = 1
        /\ run[h].status = 500
        /\ \E l \in log :
              l.req = run[h].req /\ l.level = "error" /\ l.detail = "rate limited"

\* content that a fetch of the account can return at time t: a post inside
\* the time range of the search, a comment of the last 7 days
Fetchable(accountId, id, t) ==
    /\ id \in ContentIds
    /\ ContentPublishedAt(id) <= t
    /\ IF accountId \in RedditAccounts
       THEN ContentPublishedAt(id) >= t - Lookback(RedditTimeRange(accountId))
       ELSE ~(ContentPublishedAt(id) < t - SevenDays)

\* C16 as stated: no step removes the interaction record of content that a
\* fetch of the account can still return
C16_PruningKeepsReachable ==
    [][/\ \A x \in redditInteraction :
            (~\E y \in redditInteraction' :
                   y.accountId = x.accountId /\ y.postId = x.postId)
                => ~Fetchable(x.accountId, x.postId, now)
       /\ \A x \in youTubeCommentInteraction :
            (~\E y \in youTubeCommentInteraction' :
                   y.accountId = x.accountId /\ y.commentId = x.commentId)
                => ~Fetchable(x.accountId, x.commentId, now)]_vars

\* in non-overlapping runs whose store writes all succeeded, the Reddit
\* account has replied a second time to c1, whose record the cleanup of the
\* run before had deleted
C16_Witness ==
    /\ faults = 0
    /\ \E p \in posted :
          /\ p.accountId \in RedditAccounts
          /\ p.parentId = "c1"
          /\ p.replyId > 0
          /\ \E q \in posted :
                q.accountId = p.accountId /\ q.parentId = "c1" /\ q.replyId = 0

\* the retention bound of the account of run me between the tables before and
\* after a step at time t
RetentionBound(me, redditBefore, redditAfter, youTubeAfter, t) ==
    IF me.platform = "reddit"
    THEN LET before == {x \in redditBefore : x.accountId = me.accountId}
             after == {x \in redditAfter : x.accountId = me.accountId}
         IN  /\ Cardinality(after) <= KeepInteractions
             /\ \A d \in before \ after, k \in after : d.createdAt < k.createdAt
    ELSE \A x \in youTubeAfter :
             x.accountId = me.accountId => ~(x.createdAt < t - FourteenDays)

C18_LogFailureHarmless ==
    \A h \in Handlers :
        run[h].failed = {"log"}
            => /\ run[h].status # 500
               /\ run[h].pc = "done" /\ run[h].calls.publish = 1
                     => run[h].replied /\ run[h].calls.upsert = 1

\* the append of "Posted comment" threw in a Reddit run: the reply is on the
\* platform, the run has responded 500 without replied, and no interaction
\* record was written
C18_Witness ==
    \E h \in Handlers :
        /\ run[h].pc = "done"
        /\ run[h].platform = "reddit"
        /\ run[h].failed = {"log"}
        /\ run[h].status = 500
        /\ ~run[h].replied
        /\ run[h].calls.upsert = 0
        /\ \E p \in posted :
              /\ p.replyId = run[h].req
              /\ ~HasRecord(p.accountId, p.parentId)

\* the responses made before or at the account lookup
LookupBodies == {"accountId is required", "Unauthorized", "Account not found"}

\* the log messages of the runs that end with nothing to do
NoActionMessages ==
    {"No eligible posts found", "No videos found on channel", "No comments found",
     "All found comments have been replied to"}

\* the rows of the log of request req
LogOf(req) == {l \in log : l.req = req}

\* C19 as stated: when a run that got past the account lookup has responded
\* (the log being writable), the log tells its outcome: an error row for a
\* failure response, a success row for a reply, the row of the no-action
\* message for a run with nothing to do
C19_OutcomeReadableFromLog ==
    \A h \in Handlers :
        /\ run[h].pc = "done"
        /\ run[h].body \notin LookupBodies
        /\ "log" \notin run[h].failed
        => /\ run[h].status >= 400 => \E l \in LogOf(run[h].req) : l.level = "error"
           /\ run[h].status = 200 /\ run[h].replied
                 => /\ \E l \in LogOf(run[h].req) : l.level = "success"
                    /\ ~\E l \in LogOf(run[h].req) : l.level = "error"
           /\ run[h].status = 200 /\ ~run[h].replied
                 => /\ \E l \in LogOf(run[h].req) : l.message \in NoActionMessages
                    /\ ~\E l \in LogOf(run[h].req) : l.level \in {"error", "success"}

\* the upsert of a YouTube run threw: the run has responded 500, and the log
\* of the run holds "Posted reply" and no error
C19_Witness ==
    \E h \in Handlers :
        /\ run[h].pc = "done"
        /\ run[h].platform = "youtube"
        /\ run[h].failed = {"store"}
        /\ run[h].status = 500
        /\ \E l \in LogOf(run[h].req) : l.level = "success" /\ l.message = "Posted reply"
        /\ ~\E l \in LogOf(run[h].req) : l.level \in {"error", "warning"}

\* C20 as stated: a request that is at a stage of a pipeline carried the cron
\* secret or the session of the owner of its account
C20_OnlyAuthorizedRuns ==
    \A h \in Handlers : InFlight(h) => run[h].authorized

\* a request with neither the cron secret nor the owner's session has made the
\* YouTube run read the credentials, call the platform and publish a reply
C20_Witness ==
    \E h \in Handlers :
        /\ run[h].platform = "youtube"
        /\ ~run[h].authorized
        /\ run[h].pc = "store"
        /\ run[h].creds.accessToken # NoToken
        /\ run[h].calls.fetch = 1
        /\ \E p \in posted : p.replyId = run[h].req

\* C21 as stated: the access token and the refresh token of an account are
\* both present or both absent
C21_TokensBothOrNeither ==
    \A a \in DOMAIN credentials :
        credentials[a].accessToken = NoToken <=> credentials[a].refreshToken = NoToken

\* a YouTube account that was disconnected and connected again holds an
\* access token and no refresh token
C21_Witness ==
    \E a \in YouTubeAccounts :
        /\ credentials[a].accessToken > 2
        /\ credentials[a].refreshToken = NoToken
        /\ credentials[a].identity = OwnIdentity(a)

\* C22: a YouTube token refresh whose response carries no new refresh token
\* returns the refresh token the run read, the update that follows stores that
\* token with the new access token, and no step of a run clears a stored
\* refresh token
C22_RefreshTokenRetained ==
    [][/\ \A a \in DOMAIN credentials :
            credentials[a].refreshToken # NoToken => credentials'[a].refreshToken # NoToken
       /\ \A h \in Handlers :
        LET me == run[h]
        IN  /\ me.platform = "youtube" /\ me.pc = "refresh" /\ run'[h].pc = "persist"
               /\ run'[h].tokenResult.refreshToken # issued'
                  => run'[h].tokenResult.refreshToken = me.creds.refreshToken
            /\ me.pc = "persist" /\ run'[h].pc = "videos"
               /\ me.tokenResult.refreshToken = me.creds.refreshToken
                  => /\ credentials'[me.accountId].refreshToken = me.creds.refreshToken
                     /\ credentials'[me.accountId].refreshToken # NoToken
                     /\ credentials'[me.accountId].accessToken = me.tokenResult.accessToken]_vars

\* a YouTube run has refreshed its token and stored it: the access token is
\* new, and the refresh token is the one the run read
C22_Witness ==
    \E h \in Handlers :
        /\ run[h].platform = "youtube"
        /\ run[h].pc = "videos"
        /\ run[h].calls.refresh = 1
        /\ run[h].accessToken # run[h].creds.accessToken
        /\ credentials[run[h].accountId].accessToken = run[h].accessToken
        /\ credentials[run[h].accountId].tokenExpiresAt = now + ExpiresIn
        /\ credentials[run[h].accountId].refreshToken = run[h].creds.refreshToken
        /\ run[h].creds.refreshToken # NoToken

\* the calls of a run to its platform's content and publish endpoints
PlatformCalls(me) == me.calls.fetch + me.calls.comments + me.calls.publish

\* C23: the step that lets a run with a refreshed token go on to its first
\* fetch has written the new access token and its expiry to the credential
\* store; a platform call is made only after that step; and a run whose
\* write of the refreshed token failed ends with no platform call and the
\* store unchanged
C23_RefreshStoredBeforeFetch ==
    [][\A h \in Handlers :
        LET me == run[h]
        IN  /\ me.pc \in {"refresh", "persist"} /\ run'[h].pc \in {"search", "videos"}
               /\ run'[h].calls.refresh = 1
                  => /\ credentials'[me.accountId].accessToken = run'[h].accessToken
                     /\ credentials'[me.accountId].tokenExpiresAt = now + ExpiresIn
                     /\ run'[h].accessToken # me.creds.accessToken
                     /\ PlatformCalls(run'[h]) = 0
            /\ PlatformCalls(run'[h]) > PlatformCalls(me)
                  => me.pc \notin {"idle", "done", "refresh", "persist"}
            /\ me.pc \in {"refresh", "persist"} /\ "db" \in run'[h].failed
                  => /\ run'[h].pc = "done"
                     /\ run'[h].status >= 400
                     /\ PlatformCalls(run'[h]) = 0
                     /\ credentials' = credentials]_vars

\* a YouTube run has refreshed its token and fetched the videos of its
\* channel, and the credential store holds the run's token and expiry
C23_Witness ==
    \E h \in Handlers :
        /\ run[h].platform = "youtube"
        /\ run[h].pc = "comments"
        /\ run[h].calls.refresh = 1
        /\ run[h].calls.fetch = 1
        /\ run[h].accessToken # run[h].creds.accessToken
        /\ credentials[run[h].accountId].accessToken = run[h].accessToken
        /\ credentials[run[h].accountId].tokenExpiresAt = now + ExpiresIn

\* C24: a step of the YouTube loop in which the fetch of the comments of a
\* video failed (403 or any other error) adds no comment, keeps the comments
\* collected so far, goes on to the next video if there is one, and does not
\* end the run in a fetch failure
C24_FailedVideoSkipped ==
    [][\A h \in Handlers :
        LET me == run[h]
        IN  /\ me.platform = "youtube" /\ me.pc = "comments"
            /\ run'[h] # me
            /\ faults' > faults
            /\ "log" \notin run'[h].failed
            => /\ run'[h].calls.comments = me.calls.comments + 1
               /\ "fetch" \notin run'[h].failed
               /\ run'[h].status # 500
               /\ Len(me.videos) > 1
                     => /\ run'[h].pc = "comments"
                        /\ run'[h].videos = Tail(me.videos)
                        /\ run'[h].allComments = me.allComments
               /\ Len(me.videos) = 1 /\ me.allComments # <<>>
                     => run'[h].pc = "filter" /\ run'[h].allComments = me.allComments
               /\ Len(me.videos) = 1 /\ me.allComments = <<>>
                     => run'[h].pc = "done" /\ run'[h].status = 200]_vars

\* the fetch of the comments of the first video failed in the first run, and
\* the run has selected a comment of the second video
C24_Witness ==
    \E h \in Handlers :
        /\ run[h].platform = "youtube"
        /\ run[h].pc = "generate"
        /\ run[h].req = 1
        /\ started = 1
        /\ faults = 1
        /\ run[h].failed = {}
        /\ run[h].calls.comments = 2
        /\ run[h].target.videoId = "v2"

\* the rows of a table that belong to an account
OwnRows(table, accountId) == {x \in table : x.accountId = accountId}

PublishedBy(h) ==
    {p \in posted : /\ p.replyId = run[h].req
                    /\ p.accountId = run[h].accountId
                    /\ p.parentId = run[h].target.id}

\* C26: a step changes an interaction table only as the store or the cleanup
\* of a run whose publish call succeeded; the rows it creates or updates are
\* those of the run's account and of the content id the run has published a
\* reply to, and every other step of a run leaves both tables as they were
C26_RecordOnlyAfterPublish ==
    [][\/ /\ redditInteraction' = redditInteraction
           /\ youTubeCommentInteraction' = youTubeCommentInteraction
       \/ \E h \in Handlers :
            /\ run'[h] # run[h]
            /\ run[h].pc \in {"store", "cleanup"}
            /\ "publish" \notin run[h].failed
            /\ run[h].calls.publish = 1
            /\ PublishedBy(h) # {}
            /\ \A x \in redditInteraction' \ redditInteraction :
                  /\ run[h].pc = "store"
                  /\ x.accountId = run[h].accountId /\ x.postId = run[h].target.id
            /\ \A x \in youTubeCommentInteraction' \ youTubeCommentInteraction :
                  /\ run[h].pc = "store"
                  /\ x.accountId = run[h].accountId /\ x.commentId = run[h].target.id]_vars

\* one run has stored the record of the reply it published, and an overlapping
\* run whose publish call failed has responded 500; the record is the only one
C26_Witness ==
    \E h, k \in Handlers :
        /\ run[h].pc = "cleanup"
        /\ PublishedBy(h) # {}
        /\ HasRecord(run[h].accountId, run[h].target.id)
        /\ run[k].pc = "done" /\ run[k].status = 500
        /\ "publish" \in run[k].failed
        /\ Cardinality(redditInteraction) + Cardinality(youTubeCommentInteraction) = 1

\* C27: when the cleanup of a run succeeds and the run responds replied: true,
\* the record of the content the run has just replied to is in the table the
\* cleanup leaves
C27_OwnRecordSurvivesPrune ==
    [][\A h \in Handlers :
        /\ run[h].pc = "cleanup" /\ run'[h].pc = "done"
        /\ run'[h].replied
        /\ "store" \notin run'[h].failed
        => IF run[h].platform = "reddit"
           THEN \E x \in redditInteraction' :
                    /\ x.accountId = run[h].accountId
                    /\ x.postId = run[h].target.id
           ELSE \E x \in youTubeCommentInteraction' :
                    /\ x.accountId = run[h].accountId
                    /\ x.commentId = run[h].target.id]_vars

\* a Reddit run has replied to c2 as the 101st interaction of the account and
\* has responded: its cleanup has deleted the oldest row and kept the new one
C27_Witness ==
    \E h \in Handlers :
        /\ run[h].pc = "done" /\ run[h].replied /\ run[h].failed = {}
        /\ run[h].platform = "reddit"
        /\ FirstReddit \notin redditInteraction
        /\ \E x \in redditInteraction :
              x.accountId = run[h].accountId /\ x.postId = "c2" /\ x.rowId = run[h].req
        /\ Cardinality(OwnRows(redditInteraction, run[h].accountId)) = KeepInteractions

\* the accounts of the rows the cron request found that have credentials and
\* whose schedule is due at the minute the request arrived
CronDue ==
    {c.accountId : c \in {d \in Range(cron.enabledConfigs) :
                              /\ d.accessToken # NoToken
                              /\ d.channelId # NULL
                              /\ checkSchedule(d.schedule, cron.startedAt)}}

\* how many times the loop has invoked the run of an account
Invocations(accountId) ==
    Cardinality({i \in DOMAIN cron.invoked : cron.invoked[i] = accountId})

\* C28 as stated: when a cron request has responded 200, every account that was
\* enabled, connected and due when the request arrived has had its run invoked
\* exactly once, whatever the runs before it came back with, and no account
\* without credentials in the rows the request found has been invoked
C28_EveryDueAccountInvokedOnce ==
    cron.pc = "done" /\ cron.status = 200
    => /\ \A a \in CronDue : Invocations(a) = 1
       /\ \A a \in Range(cron.invoked) :
             /\ Invocations(a) = 1
             /\ \E c \in Range(cron.enabledConfigs) :
                   c.accountId = a /\ c.accessToken # NoToken /\ c.channelId # NULL

\* two enabled, connected accounts, both due when the request arrived: the run
\* of the first came back a minute later, the second was found not due and was
\* not invoked, and the request has responded 200
C28_Witness ==
    /\ cron.pc = "done" /\ cron.status = 200
    /\ CronDue = CronAccounts
    /\ Len(cron.invoked) = 1
    /\ now = cron.startedAt + 1

\* C29 as stated: a cron request gets past the authorization check only when
\* CRON_SECRET is set and the authorization header carries it, and with
\* CRON_SECRET not set every request is answered 401 and invokes no run
C29_OnlyConfiguredSecretProcessed ==
    /\ cron.pc = "loop" \/ (cron.pc = "done" /\ cron.status # 401)
          => /\ cron.env # Undefined
             /\ cron.authHeader = "Bearer " \o cron.env
    /\ cron.env = Undefined /\ cron.pc # "idle"
          => cron.pc = "done" /\ cron.status = 401 /\ cron.invoked = <<>>

\* CRON_SECRET is not set, the request carried "Bearer undefined", and the loop
\* has invoked the run of an account
C29_Witness ==
    /\ cron.env = Undefined
    /\ cron.authHeader = "Bearer undefined"
    /\ Len(cron.invoked) >= 1

\* the users that signup requests have created
CreatedUsers == {u \in signup.user : u.id \in SignupRequests}

\* C30: however the signup requests for an invite overlap, at most one of them
\* responds with success and at most one user exists by them, with the four
\* default accounts and with the invite marked used; a request succeeds only
\* while the invite is not marked used, and the mark is never taken back
C30_InviteYieldsOneUser ==
    /\ [](/\ Cardinality(CreatedUsers) <= 1
          /\ Cardinality({i \in SignupRequests : signup.req[i].status = 200}) <= 1
          /\ \A i \in SignupRequests :
                signup.req[i].status = 200 <=> \E u \in CreatedUsers : u.id = i
          /\ {a.userId : a \in signup.account} = {u.id : u \in CreatedUsers}
          /\ \A u \in CreatedUsers :
                /\ Cardinality({a \in signup.account : a.userId = u.id}) = Len(Platforms)
                /\ u.email = toLowerCase(signup.invite.email)
          /\ CreatedUsers # {} <=> signup.invite.usedAt # NoDate)
    /\ [][/\ signup.invite.usedAt # NoDate => signup'.invite.usedAt = signup.invite.usedAt
          /\ \A i \in SignupRequests :
                /\ signup.invite.usedAt # NoDate /\ signup.req[i].pc = "invite"
                   /\ signup'.req[i] # signup.req[i]
                      => signup'.req[i].pc = "done" /\ signup'.req[i].status = 400
                /\ signup.req[i].status # 200 /\ signup'.req[i].status = 200
                      => signup.invite.usedAt = NoDate]_vars

\* two requests with the token had both passed the checks of the invite and of
\* the user table: one has created the user, the other has failed in its
\* transaction, and a third, arriving later, has been told the invite is used
C30_Witness ==
    \E i, j, k \in SignupRequests :
        /\ signup.req[i].status = 200
        /\ signup.req[j].status = 500 /\ signup.req[j].token = "t1"
        /\ signup.req[k].status = 400
        /\ signup.req[k].error = "Invite token has already been used"
        /\ Cardinality(CreatedUsers) = 1
        /\ signup.req[i].email # signup.req[j].email

=============================================================================
